---- MODULE Spec2Model ----
(***************************************************************************)
(* Stages segment generator, Turing update rule and ramp extractor as a    *)
(* state machine.                                                          *)
(*                                                                         *)
(* Floats are fixed point.  A phase is an integer number of 1/PhaseOne, a  *)
(* parameter or an output value an integer number of 1/ParamOne.  A        *)
(* pointer of a Segment is a pair <<kind, index>> naming the cell it       *)
(* points to.  One Process call is ProcessBegin (the code before the       *)
(* sample loop) followed by one ProcessSample per loop iteration; nothing  *)
(* else runs while a block is being rendered.                              *)
(***************************************************************************)
EXTENDS Integers, Sequences, FiniteSets, TLC

\* ------------------------------------------------------------------ bounds
\* Fixed-point resolution of a phase: PhaseOne is 1.0f.
PhaseOne == 4
\* Fixed-point resolution of parameters and values: ParamOne is 1.0f.
ParamOne == 2
\* Largest segment count the lifecycle specification configures.
MaxSegs == 3
\* Largest number of Configure calls of a behaviour.
MaxConfigures == 2
\* Largest block size passed to Process.
MaxBlock == 2
\* Number of entries of lut_env_frequency (scaled down from the resource).
LUT_ENV_FREQUENCY_SIZE == 3
\* The literal 2048.0f of RateToFrequency, scaled with the table.
kEnvIndexScale == 2
\* Lowest phase an out-of-bounds frequency may drive the model to.
MinPhase == 1

\* ------------------------------------------------------- program constants
kMaxNumSegments == 6
kRetrigDelaySamples == 32
\* Width of the Turing shift register (uint16_t).
kRegisterBits == 16
\* kSampleAndHoldDelay (2 ms of samples), scaled down.
kSampleAndHoldDelay == 2
\* Largest number of advance_tm calls of a behaviour.
MaxUpdates == 2

Types == {"RAMP", "STEP", "HOLD", "TURING"}
Ranges == {"DEFAULT", "SLOW", "FAST"}

TypeIndex(t) ==
  CASE t = "RAMP" -> 0 [] t = "STEP" -> 1 [] t = "HOLD" -> 2 [] t = "TURING" -> 3

Min(S) == CHOOSE x \in S : \A y \in S : x <= y
Max(S) == CHOOSE x \in S : \A y \in S : x >= y

\* static_cast<int32_t>(float): truncation toward zero of num/den, den > 0.
Trunc(num, den) == IF num >= 0 THEN num \div den ELSE -((-num) \div den)

\* CONSTRAIN(x, lo, hi)
CONSTRAIN(x, lo, hi) == IF x < lo THEN lo ELSE IF x > hi THEN hi ELSE x

\* ---------------------------------------------------------------- pointers
NullPtr == <<"null", 0>>
ZeroPtr == <<"zero", 0>>
HalfPtr == <<"half", 0>>
OnePtr == <<"one", 0>>
PrimaryPtr(i) == <<"primary", i>>
SecondaryPtr(i) == <<"secondary", i>>
RegisterPtr(i) == <<"register", i>>

\* *p for a non-NULL pointer p, given the parameter and segment arrays.
Deref(p, params, segs) ==
  CASE p[1] = "zero" -> 0
    [] p[1] = "half" -> ParamOne \div 2
    [] p[1] = "one" -> ParamOne
    [] p[1] = "primary" -> params[p[2]].primary
    [] p[1] = "secondary" -> params[p[2]].secondary
    [] p[1] = "register" -> segs[p[2]].register_value

\* --------------------------------------------------------- numeric helpers
\* lut_env_frequency[i] for a valid index: the phase increment per sample,
\* strictly positive and non-increasing in i.  The entries of the slow end
\* of the table are below the resolution 1/PhaseOne: such an increment shows
\* as 0 or 1 unit at a sample.
lut_env_frequency(i) ==
  IF i = 0 THEN {PhaseOne \div 2}
  ELSE IF i = LUT_ENV_FREQUENCY_SIZE - 1 THEN {0, 1}
  ELSE {1}

\* What a read one past the end of the table may return.
GarbageFrequency == {-1, PhaseOne}

\* The index RateToFrequency reads the table at.
RateToFrequencyIndex(rate) ==
  CONSTRAIN(Trunc(rate * kEnvIndexScale, ParamOne), 0, LUT_ENV_FREQUENCY_SIZE)

\* The set of values RateToFrequency(rate) may return.
RateToFrequency(rate) ==
  LET i == RateToFrequencyIndex(rate)
  IN IF i < LUT_ENV_FREQUENCY_SIZE THEN lut_env_frequency(i)
     ELSE GarbageFrequency

\* WarpPhase(t, curve), t in 1/PhaseOne and curve in 1/ParamOne.
WarpPhase(t, curve) ==
  LET c2 == 2 * curve - ParamOne
      flip == c2 < 0
      a == 32 * c2 * c2
      p2 == ParamOne * ParamOne
      t1 == IF flip THEN PhaseOne - t ELSE t
      den == PhaseOne * p2 + a * t1
      t2 == IF den = 0 THEN t1 ELSE (PhaseOne * (p2 + a) * t1) \div den
  IN IF flip THEN PhaseOne - t2 ELSE t2

\* Crossfade(a, b, fade) = a + (b - a) * fade
Crossfade(a, b, fade) == a + ((b - a) * fade) \div PhaseOne

\* ------------------------------------------------------------- Configure
\* A Configuration is [type, loop, bipolar, range]; a configuration array is
\* a function on 0..n-1.
is_step(config) ==
  config.type = "STEP" \/ (config.type = "TURING" /\ ~config.loop)

\* First pass of Configure: loop points, STEP segments, first RAMP.
LoopStart(cfg, n) ==
  IF \E i \in 0..(n - 1) : cfg[i].loop
  THEN Min({i \in 0..(n - 1) : cfg[i].loop}) ELSE -1
LoopEnd(cfg, n) ==
  IF \E i \in 0..(n - 1) : cfg[i].loop
  THEN Max({i \in 0..(n - 1) : cfg[i].loop}) ELSE -1
HasStepSegments(cfg, n) == \E i \in 0..(n - 1) : is_step(cfg[i])
FirstRampSegment(cfg, n) ==
  IF \E i \in 0..(n - 1) : cfg[i].type = "RAMP"
  THEN Min({i \in 0..(n - 1) : cfg[i].type = "RAMP"}) ELSE -1
HasStepSegmentsInsideLoop(cfg, n) ==
  /\ LoopStart(cfg, n) # -1
  /\ \E i \in LoopStart(cfg, n)..LoopEnd(cfg, n) : is_step(cfg[i])

\* The while loop that looks for the next STEP segment, entered with
\* next_step = i and follow_loop = (loop_end != -1).
RECURSIVE FindNextStep(_, _, _, _)
FindNextStep(cfg, n, next_step, follow_loop) ==
  IF is_step(cfg[next_step]) THEN next_step
  ELSE LET inc == next_step + 1
           wrap == follow_loop /\ inc = LoopEnd(cfg, n) + 1
           ns == IF wrap THEN LoopStart(cfg, n) ELSE inc
           fl == IF wrap THEN FALSE ELSE follow_loop
       IN IF ns >= n THEN n - 1 ELSE FindNextStep(cfg, n, ns, fl)

\* (not the code) The index past the loop or past the STEP is not wrapped.
IfRisingNoWrap(cfg, n, i) ==
  IF ~HasStepSegments(cfg, n) THEN 0
  ELSE IF /\ ~HasStepSegmentsInsideLoop(cfg, n)
          /\ i >= LoopStart(cfg, n) /\ i <= LoopEnd(cfg, n)
       THEN LoopEnd(cfg, n) + 1
       ELSE LET next_step == FindNextStep(cfg, n, i, LoopEnd(cfg, n) # -1)
            IN IF next_step = LoopEnd(cfg, n) THEN LoopStart(cfg, n)
               ELSE next_step + 1

\* (not the code) A RISING flag goes to the segment that follows.
IfRisingNext(cfg, n, i) == (i + 1) % n

\* (not the code) A RISING flag goes to the next STEP segment itself.
IfRisingAtStep(cfg, n, i) ==
  IF ~HasStepSegments(cfg, n) THEN 0
  ELSE IF /\ ~HasStepSegmentsInsideLoop(cfg, n)
          /\ i >= LoopStart(cfg, n) /\ i <= LoopEnd(cfg, n)
       THEN (LoopEnd(cfg, n) + 1) % n
       ELSE FindNextStep(cfg, n, i, LoopEnd(cfg, n) # -1)

\* (not the code) The loop is left when a STEP segment lies inside it.
IfRisingStepInside(cfg, n, i) ==
  IF ~HasStepSegments(cfg, n) THEN 0
  ELSE IF /\ HasStepSegmentsInsideLoop(cfg, n)
          /\ i >= LoopStart(cfg, n) /\ i <= LoopEnd(cfg, n)
       THEN (LoopEnd(cfg, n) + 1) % n
       ELSE LET next_step == FindNextStep(cfg, n, i, LoopEnd(cfg, n) # -1)
            IN IF next_step = LoopEnd(cfg, n) THEN LoopStart(cfg, n)
               ELSE (next_step + 1) % n

IfRising(cfg, n, i) ==
  IF ~HasStepSegments(cfg, n) THEN 0
  ELSE IF /\ ~HasStepSegmentsInsideLoop(cfg, n)
          /\ i >= LoopStart(cfg, n) /\ i <= LoopEnd(cfg, n)
       THEN (LoopEnd(cfg, n) + 1) % n
       ELSE LET next_step == FindNextStep(cfg, n, i, LoopEnd(cfg, n) # -1)
            IN IF next_step = LoopEnd(cfg, n) THEN LoopStart(cfg, n)
               ELSE (next_step + 1) % n

\* (not the code) STEP segments do not inhibit the FALLING flag.
IfFallingWithSteps(cfg, n, i) ==
  IF LoopEnd(cfg, n) = -1 \/ LoopEnd(cfg, n) = n - 1
  THEN -1 ELSE LoopEnd(cfg, n) + 1

\* (not the code) A FALLING flag is never wired.
IfFallingNever(cfg, n, i) == -1

IfFalling(cfg, n, i) ==
  IF LoopEnd(cfg, n) = -1 \/ LoopEnd(cfg, n) = n - 1 \/ HasStepSegments(cfg, n)
  THEN -1 ELSE LoopEnd(cfg, n) + 1

\* (not the code) Completion always goes to the segment that follows.
IfCompleteNext(cfg, n, i) == i + 1

\* (not the code) Completion restarts the segment.
IfCompleteSame(cfg, n, i) == i

IfComplete(cfg, n, i) ==
  IF i = LoopEnd(cfg, n) THEN LoopStart(cfg, n) ELSE i + 1

\* (not the code) The first RAMP is treated like the ones after it.
RampEndNoFirst(cfg, n, i) ==
  IF i = n - 1 THEN ZeroPtr
  ELSE IF cfg[i + 1].type = "TURING" THEN RegisterPtr(i + 1)
  ELSE IF cfg[i + 1].type # "RAMP" THEN PrimaryPtr(i + 1)
  ELSE SecondaryPtr(i)

\* The end pointer of RAMP segment i.
RampEnd(cfg, n, i) ==
  IF i = n - 1 THEN ZeroPtr
  ELSE IF cfg[i + 1].type = "TURING" THEN RegisterPtr(i + 1)
  ELSE IF cfg[i + 1].type # "RAMP" THEN PrimaryPtr(i + 1)
  ELSE IF i = FirstRampSegment(cfg, n) THEN OnePtr
  ELSE SecondaryPtr(i)

RampCurve(cfg, n, i) ==
  IF /\ i # n - 1 /\ cfg[i + 1].type = "RAMP" /\ i # FirstRampSegment(cfg, n)
  THEN HalfPtr ELSE SecondaryPtr(i)

\* Segment i (0 <= i < n) as the second pass of Configure leaves it; s is
\* the record before the call (shift_register, register_value and range are
\* not written).
ConfigureSegment(s, cfg, n, i) ==
  LET one_loop == i = LoopStart(cfg, n) /\ i = LoopEnd(cfg, n)
      t == cfg[i].type
      wired ==
        CASE t = "RAMP" ->
               [s EXCEPT !.retrig = ~cfg[i].bipolar,
                         !.start = IF n = 1 THEN OnePtr ELSE NullPtr,
                         !.time = PrimaryPtr(i),
                         !.curve = RampCurve(cfg, n, i),
                         !.portamento = ZeroPtr,
                         !.phase = NullPtr,
                         !.end = RampEnd(cfg, n, i),
                         !.advance_tm = FALSE]
          [] t = "STEP" ->
               [s EXCEPT !.retrig = TRUE,
                         !.start = PrimaryPtr(i),
                         !.end = PrimaryPtr(i),
                         !.curve = HalfPtr,
                         !.portamento = SecondaryPtr(i),
                         !.time = NullPtr,
                         !.phase = IF one_loop THEN ZeroPtr ELSE OnePtr,
                         !.advance_tm = FALSE]
          [] t = "TURING" ->
               [s EXCEPT !.retrig = TRUE,
                         !.start = RegisterPtr(i),
                         !.end = RegisterPtr(i),
                         !.curve = HalfPtr,
                         !.advance_tm = TRUE,
                         !.portamento = ZeroPtr,
                         !.time = NullPtr,
                         !.phase = ZeroPtr]
          [] t = "HOLD" ->
               [s EXCEPT !.retrig = TRUE,
                         !.start = PrimaryPtr(i),
                         !.end = PrimaryPtr(i),
                         !.curve = HalfPtr,
                         !.portamento = ZeroPtr,
                         !.time = IF one_loop THEN NullPtr ELSE SecondaryPtr(i),
                         !.phase = OnePtr,
                         !.advance_tm = FALSE]
  IN [wired EXCEPT !.bipolar = cfg[i].bipolar,
                   !.if_complete = IfComplete(cfg, n, i),
                   !.if_falling = IfFalling(cfg, n, i),
                   !.if_rising = IfRising(cfg, n, i)]

\* (not the code) The sentinel always completes into segment 0.
ConfigureSentinelLooping(s, last, cfg, n) ==
  [s EXCEPT !.end = last.end,
            !.start = last.end,
            !.time = ZeroPtr,
            !.curve = HalfPtr,
            !.portamento = ZeroPtr,
            !.if_rising = 0,
            !.if_falling = -1,
            !.if_complete = 0]

\* The sentinel record as Configure leaves it: only these fields are written.
ConfigureSentinel(s, last, cfg, n) ==
  [s EXCEPT !.end = last.end,
            !.start = last.end,
            !.time = ZeroPtr,
            !.curve = HalfPtr,
            !.portamento = ZeroPtr,
            !.if_rising = 0,
            !.if_falling = -1,
            !.if_complete = IF LoopEnd(cfg, n) = n - 1 THEN 0 ELSE -1]

\* segments_ after Configure(has_trigger, cfg, n) with n >= 2.
ConfigureSegments(segs, cfg, n) ==
  LET wired == [i \in DOMAIN segs |->
                  IF i < n THEN ConfigureSegment(segs[i], cfg, n, i) ELSE segs[i]]
  IN [wired EXCEPT ![n] = ConfigureSentinel(segs[n], wired[n - 1], cfg, n)]

\* ------------------------------------------------------ Turing update rule
Pow2(k) == 2 ^ k

\* Bit 15 of (sr << (steps - 1)): bit 16 - steps of sr for a shift amount in
\* 0..15; any bit when the shift amount is not one the 16-bit register has.
\* (not the code) The bit copied is always the top bit.
CopiedBitTop(sr, steps) == {(sr \div Pow2(kRegisterBits - 1)) % 2}

CopiedBit(sr, steps) ==
  IF steps >= 1 /\ steps <= kRegisterBits
  THEN {((sr * Pow2(steps - 1)) \div Pow2(kRegisterBits - 1)) % 2}
  ELSE {0, 1}

\* (not the code) The probability is not clamped at the extremes.
CoinUnlocked(prob) == {0, 1}

\* The outcomes of (Random::GetFloat() < p), p being the clamped probability;
\* prob is in 1/ParamOne.
Coin(prob) ==
  IF prob * 1000 < ParamOne THEN {0}
  ELSE IF prob * 1000 > 999 * ParamOne THEN {1}
  ELSE {0, 1}

\* shift_register after advance_tm with the coin flip drawn as `flip`.
AdvanceRegister(sr, copied_bit, flip) ==
  LET mutated == (copied_bit + flip) % 2
  IN (sr \div 2) + Pow2(kRegisterBits - 1) * mutated

\* register_value computed from shift_register.
RegisterValue(sr, bipolar) ==
  LET v == (sr * ParamOne) \div (Pow2(kRegisterBits) - 1)
  IN IF bipolar THEN Trunc(10 * (2 * v - ParamOne), 16) ELSE v

\* size_t(15 * secondary + 1)
TuringSteps(secondary) == Trunc(15 * secondary + ParamOne, ParamOne)

\* (not the code) The update also clears the retrig flag of the record.
advance_tm_retrig(s, copied_bit, flip) ==
  LET sr == AdvanceRegister(s.shift_register, copied_bit, flip)
  IN [s EXCEPT !.shift_register = sr,
               !.register_value = RegisterValue(sr, s.bipolar),
               !.retrig = FALSE]

\* A segment record after advance_tm(steps, prob, ...), the copied bit and
\* the coin flip being drawn as given.
\* (not the code) The register is stepped twice by one call.
advance_tm_twice(s, copied_bit, flip) ==
  LET sr == AdvanceRegister(AdvanceRegister(s.shift_register, copied_bit, flip),
                            copied_bit, flip)
  IN [s EXCEPT !.shift_register = sr,
               !.register_value = RegisterValue(sr, s.bipolar)]

advance_tm(s, copied_bit, flip) ==
  LET sr == AdvanceRegister(s.shift_register, copied_bit, flip)
  IN [s EXCEPT !.shift_register = sr,
               !.register_value = RegisterValue(sr, s.bipolar)]

\* ------------------------------------------------------------ one pole
\* Coefficients are in 1/CoefOne.
CoefOne == 2

\* Number of entries of lut_portamento_coefficient (scaled down) and the
\* literal 512.0f of PortamentoRateToLPCoefficient, scaled with it.
LUT_PORTAMENTO_COEFFICIENT_SIZE == 3
kPortamentoIndexScale == 2

lut_portamento_coefficient(i) == IF i = 0 THEN CoefOne ELSE 1

\* What a read outside the table may return.
GarbageCoefficient == {0, CoefOne + 1}

PortamentoIndex(rate) == Trunc(rate * kPortamentoIndexScale, ParamOne)

\* The set of values PortamentoRateToLPCoefficient(rate) may return.
PortamentoRateToLPCoefficient(rate) ==
  LET i == PortamentoIndex(rate)
  IN IF i >= 0 /\ i < LUT_PORTAMENTO_COEFFICIENT_SIZE
     THEN {lut_portamento_coefficient(i)}
     ELSE GarbageCoefficient

\* ONE_POLE(out, in, coefficient): out += coefficient * (in - out)
ONE_POLE(out, in, coefficient) == out + Trunc(coefficient * (in - out), CoefOne)

\* ------------------------------------------------------------- gate flags
\* The GateFlags of a sample whose level is `level`, the level of the sample
\* before it being `previous`.
GateFlags(previous, level) ==
  [high |-> level, rising |-> level /\ ~previous, falling |-> ~level /\ previous]

\* ParameterInterpolator: the value Next() returns at the k-th call (k in
\* 1..n) of a block of n samples going from `from` to `to`.
InterpolatorNext(from, to, k, n) == from + Trunc((to - from) * k, n)

\* ------------------------------------------------------------ RampExtractor
\* Durations are numbers of samples, train phases and frequencies integers
\* of 1/PhaseOne (per sample), ratios integers of 1/RatioOne.
RatioOne == 10 ^ 6

\* sample_rate_, scaled down.
kSampleRate == 2
\* audio_rate_period_ = 1 / (100 / sample_rate) and min_period_ = 1 /
\* max_frequency, in samples, scaled with it (min_period_ is the shorter).
AudioRatePeriod == 2
MinPeriod == 1
\* Longest pulse the model counts before it asks for the next RISING.
MaxDuration == 10

\* Highest train phase the model follows (the audio-rate loop takes one cycle
\* off per sample whatever the frequency is).
MaxTrainPhase == 4 * PhaseOne

\* reset_interval_ when 4 / target_frequency_ overflows the model's range.
Forever == MaxDuration + 1

\* Pulses the history keeps.
kHistorySize == 2

\* Entries of the divider tables the model draws the ratio from.
Ratios ==
  {[ratio |-> 333333, q |-> 3], [ratio |-> 499999, q |-> 2],
   [ratio |-> 999999, q |-> 1], [ratio |-> 1999999, q |-> 1]}

\* The state RampExtractor::Init and Reset leave; max_train_phase_ is not
\* written (`written` is FALSE until Process reads it).
ExtractorReset ==
  [audio_rate |-> FALSE, train_phase |-> 0, max_train_phase |-> 0, written |-> FALSE,
   frequency |-> 0, target_frequency |-> 0, lp_coefficient |-> CoefOne \div 2,
   f_ratio |-> RatioOne, reset_counter |-> 1,
   reset_interval |-> 5 * kSampleRate,
   total_duration |-> 0, current_pulse |-> 0,
   audio_hysteresis |-> FALSE, min_hysteresis |-> FALSE]

\* The Process call in progress: samples left, ar_threshold's hysteresis as
\* read before the loop, the level of the previous sample, the ratio passed
\* (the same at every call of a behaviour), and what the last RISING did.
NoCall ==
  [size |-> 0, threshold_hysteresis |-> FALSE, gate |-> FALSE,
   ratio |-> [ratio |-> RatioOne, q |-> 1],
   edge |-> "none", since |-> 0, gap |-> 0, resets |-> 0, ramp |-> 0]

\* What a read of max_train_phase_ before its first write may give.
UninitTrainPhase == {0, 3 * PhaseOne}

\* period <= threshold * (ratio > 1 ? ratio : 1), with the 10% hysteresis.
WithinAudioRate(period, hysteresis, ratio) ==
  LET r == IF ratio > RatioOne THEN ratio ELSE RatioOne
      h == IF hysteresis THEN 11 ELSE 10
  IN 10 * RatioOne * period <= h * AudioRatePeriod * r

\* period <= min_period_hysteresis_, with the 5% hysteresis.
WithinMinPeriod(period, hysteresis) ==
  100 * period <= (IF hysteresis THEN 105 ELSE 100) * MinPeriod

\* 1.0f / PredictNextPeriod(): the predictors hold recorded pulse durations,
\* a running mean of them, or the initial sample_rate_ / 2; the result is a
\* frequency of at most one cycle per sample (0: below the resolution).
PredictedFrequency == {0, 1, PhaseOne \div 2, PhaseOne}

\* The frequency recomputed at FALLING when the pulse width is locked
\* (apw_match_count_ >= kHistorySize): max(next - train_phase, 0) * pw /
\* ((1 - pw) * t_on), for a pulse width and an on time that are not kept.
PulseWidthFrequency(train_phase, max_train_phase, reset_counter) ==
  IF max_train_phase - reset_counter * PhaseOne + PhaseOne - train_phase <= 0
  THEN {0} ELSE {0, 1, PhaseOne \div 2}

\* f_ratio_ * frequency_
Scaled(ratio, frequency) == (ratio * frequency) \div RatioOne

\* (not the code) The interval has no floor of three seconds.
ResetIntervalNoFloor(target) ==
  IF target <= 0 THEN Forever ELSE (4 * PhaseOne) \div target

\* uint32_t(max(4 / target_frequency_, sample_rate_ * 3))
ResetInterval(target) ==
  IF target <= 0 THEN Forever
  ELSE LET a == (4 * PhaseOne) \div target
           b == 3 * kSampleRate
       IN IF a > b THEN a ELSE b

\* (not the code) A pulse as long as reset_interval_ is recorded too.
RecordPulseUpTo(total_duration, reset_interval) ==
  total_duration <= reset_interval

\* const bool record_pulse = p.total_duration < reset_interval_;
RecordPulse(total_duration, reset_interval) ==
  total_duration < reset_interval

\* current_pulse_ = (current_pulse_ + 1) % kHistorySize
NextPulse(current_pulse) == (current_pulse + 1) % kHistorySize

\* (not the code) The divider reloads one edge late.
DividerLate(reset_counter, q) ==
  IF reset_counter - 1 < 0
  THEN [reset |-> TRUE, reset_counter |-> q]
  ELSE [reset |-> FALSE, reset_counter |-> reset_counter - 1]

\* --reset_counter_; if (!reset_counter_) { ...; reset_counter_ = ratio.q; }
Divider(reset_counter, q) ==
  IF reset_counter - 1 = 0
  THEN [reset |-> TRUE, reset_counter |-> q]
  ELSE [reset |-> FALSE, reset_counter |-> reset_counter - 1]

\* ------------------------------------------------------------------ state
VARIABLES
  process_fn,      \* the selected process mode
  num_segments,    \* num_segments_
  segments,        \* segments_[0..kMaxNumSegments]
  parameters,      \* parameters_[0..kMaxNumSegments-1]
  phase,           \* phase_
  aux,             \* aux_
  start,           \* start_
  value,           \* value_
  lp,              \* lp_
  primary,         \* primary_, the state of the ParameterInterpolator
  active_segment,  \* active_segment_
  retrig_delay,    \* retrig_delay_
  size,            \* samples left in the Process call being executed
  block_size,      \* the size argument of that call
  frequency,       \* the block constant `frequency` of that call
  gate,            \* level of the gate input at the previous sample
  flags,           \* GateFlags of the sample processed last
  out,             \* the Output written last
  emitted,         \* a sample was emitted since the most recent Configure
  last_n,          \* num_segments argument of the most recent Configure
  configures,      \* number of Configure calls made
  gate_delay,      \* gate_delay_: the flags written last, newest first
  probe,           \* what the last sample did, for the properties
  turing,          \* a shift register under repeated advance_tm calls
  rx,              \* ramp_extractor_ and the Process call it is executing
  request          \* the arguments of the Configure call under study

vars == <<process_fn, num_segments, segments, parameters, phase, aux, start,
          value, lp, primary, active_segment, retrig_delay, size, block_size,
          frequency, gate, flags, out, emitted, last_n, configures, gate_delay,
          probe, turing, rx, request>>

graph_vars == <<process_fn, num_segments>>
input_vars == <<gate, flags>>
aside_vars == <<turing, rx, request>>

\* The fields of a Segment that make the graph (all but the Turing state).
Graph(s) == [s EXCEPT !.shift_register = 0, !.register_value = 0]
SegmentGraph == [i \in DOMAIN segments |-> Graph(segments[i])]

\* Values Random::GetSample() and Random::GetFloat() give Init.
InitRegisters == {46019}
InitRegisterValues == {ParamOne \div 2}

\* What a float that Init leaves unset may hold.
UninitFloat == {0, 3 * PhaseOne}

\* The Segment `s` that Init fills segments_ with; advance_tm is not set.
InitSegment(tm, sr, rv) ==
  [start |-> ZeroPtr, end |-> ZeroPtr, time |-> ZeroPtr, curve |-> HalfPtr,
   portamento |-> ZeroPtr, phase |-> NullPtr,
   if_rising |-> 0, if_falling |-> 0, if_complete |-> 0,
   bipolar |-> FALSE, retrig |-> TRUE, advance_tm |-> tm,
   shift_register |-> sr, register_value |-> rv, range |-> "DEFAULT"]

NoFlags == [high |-> FALSE, rising |-> FALSE, falling |-> FALSE]
NoOutput == [value |-> 0, phase |-> 0, segment |-> 0]

\* The state SegmentGenerator::Init leaves.
GeneratorInit ==
  /\ process_fn = "MultiSegment"
  /\ phase = 0 /\ start = 0 /\ value = 0 /\ lp = 0
  /\ active_segment = 0 /\ retrig_delay = 0 /\ primary = 0
  /\ aux \in UninitFloat
  /\ \E tm \in BOOLEAN, sr \in InitRegisters, rv \in InitRegisterValues :
       segments = [i \in 0..kMaxNumSegments |-> InitSegment(tm, sr, rv)]
  /\ parameters = [i \in 0..(kMaxNumSegments - 1) |-> [primary |-> 0, secondary |-> 0]]
  /\ gate_delay = [i \in 1..kSampleAndHoldDelay |-> NoFlags]
  /\ num_segments = 0

\* Nothing has been rendered: `before` is active_segment_ before the last
\* sample, `age` the number of samples since the last accepted RISING of the
\* pulse kernel (that sample included, 0: none, counted up to one more than
\* kRetrigDelaySamples), `tooth` whether that RISING found the output high,
\* `updates` the number of advance_tm calls made.
NoProbe ==
  [before |-> 0, age |-> 0, tooth |-> FALSE, updates |-> 0,
   primary |-> [i \in 0..(kMaxNumSegments - 1) |-> 0]]

HarnessInit ==
  /\ size = 0 /\ block_size = 0 /\ frequency = 0
  /\ gate = FALSE /\ flags = NoFlags /\ out = NoOutput
  /\ emitted = FALSE /\ last_n = 0 /\ configures = 0
  /\ probe = NoProbe

\* No register is being stepped.
NoRegister == [sr |-> 0, steps |-> 0, initial |-> 0, count |-> 0]

\* No Configure call is under study.
NoRequest == [num_segments |-> 0, segment_configuration |-> <<>>]

Init ==
  /\ GeneratorInit /\ HarnessInit /\ turing = NoRegister
  /\ rx = [state |-> ExtractorReset, call |-> NoCall]
  /\ request = NoRequest

runtime_vars == <<phase, aux, start, value, lp, primary, active_segment,
                  retrig_delay, gate_delay>>
block_vars == <<size, block_size, frequency>>

\* ------------------------------------------------------------- Configure
\* Configure(has_trigger, cfg, n) with n >= 2.
ConfigureMultiSegment(cfg, n) ==
  /\ size = 0
  /\ n >= 2
  /\ num_segments' = n
  /\ process_fn' = "MultiSegment"
  /\ segments' = ConfigureSegments(segments, cfg, n)
  /\ active_segment' = n
  /\ emitted' = FALSE /\ last_n' = n /\ configures' = configures + 1
  /\ out' = NoOutput /\ flags' = NoFlags
  /\ probe' = [NoProbe EXCEPT !.updates = probe.updates]
  /\ UNCHANGED <<parameters, phase, aux, start, value, lp, primary, retrig_delay,
                 gate_delay, block_vars, gate, aside_vars>>

\* The two dispatch tables, indexed by (type << 2) | (has_trigger << 1) | loop.
process_fn_table ==
  <<"Zero", "FreeRunningLFO", "DecayEnvelope", "TapLFO",
    "Portamento", "Portamento", "SampleAndHold", "SampleAndHold",
    "Delay", "Delay", "TimedPulseGenerator", "GateGenerator",
    "Zero", "Zero", "Zero", "Zero">>

\* (not the code) The advanced table with the basic STEP row.
advanced_process_fn_table_basic_step ==
  <<"Zero", "FreeRunningLFO", "DecayEnvelope", "TapLFO",
    "Portamento", "Portamento", "SampleAndHold", "SampleAndHold",
    "Delay", "Delay", "TimedPulseGenerator", "GateGenerator",
    "Random", "Random", "Turing", "Logistic">>

advanced_process_fn_table ==
  <<"Zero", "FreeRunningLFO", "DecayEnvelope", "TapLFO",
    "Portamento", "Portamento", "SampleAndHold", "TrackAndHold",
    "Delay", "Delay", "TimedPulseGenerator", "GateGenerator",
    "Random", "Random", "Turing", "Logistic">>

\* The low bit is the second field of a Configuration, its loop flag: the
\* single-segment renderings name the kernel they configure (a looping HOLD
\* with a trigger is the gate generator, a looping RAMP without one the
\* free-running LFO, a looping RAMP with one the tap LFO).
TableIndex(has_trigger, config) ==
  4 * TypeIndex(config.type) + (IF has_trigger THEN 2 ELSE 0)
    + (IF config.loop THEN 1 ELSE 0)

\* The process modes whose kernel this module renders.
RenderedModes ==
  {"MultiSegment", "Zero", "DecayEnvelope", "Portamento", "SampleAndHold",
   "TrackAndHold", "Delay", "TimedPulseGenerator", "GateGenerator", "Turing"}

\* Configure(has_trigger, cfg, 1): ConfigureSingleSegment selects the kernel
\* from the table the multimode setting names and records the segment's
\* bipolar and range bits.
SingleSegmentFn(has_trigger, config, advanced) ==
  LET table == IF advanced THEN advanced_process_fn_table ELSE process_fn_table
  IN table[TableIndex(has_trigger, config) + 1]

ConfigureSingleSegment(has_trigger, config, advanced) ==
  LET fn == SingleSegmentFn(has_trigger, config, advanced)
  IN /\ size = 0
     /\ process_fn' = fn
     /\ num_segments' = 1
     /\ segments' = [segments EXCEPT ![0].bipolar = config.bipolar,
                                     ![0].range = config.range]
     /\ emitted' = FALSE /\ last_n' = 1 /\ configures' = configures + 1
     /\ out' = NoOutput /\ flags' = NoFlags
     /\ probe' = [NoProbe EXCEPT !.updates = probe.updates]
     /\ UNCHANGED <<parameters, runtime_vars, block_vars, gate, aside_vars>>

\* set_segment_parameters(i, primary, secondary)
set_segment_parameters(i, p, s) ==
  /\ size = 0
  /\ parameters' = [parameters EXCEPT ![i] = [primary |-> p, secondary |-> s]]
  /\ UNCHANGED <<graph_vars, segments, runtime_vars, block_vars, input_vars,
                 out, emitted, last_n, configures, probe, aside_vars>>

\* ---------------------------------------------------------------- Process
\* A value in 1/ParamOne from a phase in 1/PhaseOne.
PhaseToValue(t) == Trunc(t * ParamOne, PhaseOne)
\* A phase in 1/PhaseOne from a value in 1/ParamOne (*segment.phase).
ValueToPhase(v) == Trunc(v * PhaseOne, ParamOne)

\* 1.0f / delay_time of ProcessDelay: strictly positive, lower for a longer
\* delay.
DelayFrequency(secondary) == IF 2 * secondary > ParamOne THEN 1 ELSE 2

\* The block constant `frequency` a kernel computes before its sample loop.
BlockFrequency(fn) ==
  CASE fn = "DecayEnvelope" -> RateToFrequency(parameters[0].primary)
    [] fn = "TimedPulseGenerator" -> RateToFrequency(parameters[0].secondary)
    [] fn = "Delay" -> {DelayFrequency(parameters[0].secondary)}
    [] OTHER -> {0}

\* Process(gate_flags, out, n) up to its sample loop.
ProcessBegin(n) ==
  /\ size = 0
  /\ num_segments > 0
  /\ size' = n
  /\ block_size' = n
  /\ frequency' \in BlockFrequency(process_fn)
  /\ UNCHANGED <<graph_vars, segments, parameters, runtime_vars, input_vars,
                 out, emitted, last_n, configures, probe, aside_vars>>

\* What every iteration of a sample loop does with the loop counter and the
\* gate input; the locals of the call end with its last iteration.  `advanced`
\* says that the iteration calls advance_tm, `edge` what an accepted RISING
\* of the pulse kernel found ("none": no accepted RISING at this sample).
NextSample(level, advanced, edge) ==
  /\ size > 0
  /\ advanced => probe.updates < MaxUpdates
  /\ size' = size - 1
  /\ gate' = level
  /\ flags' = GateFlags(gate, level)
  /\ emitted' = TRUE
  /\ block_size' = IF size = 1 THEN 0 ELSE block_size
  /\ frequency' = IF size = 1 THEN 0 ELSE frequency
  /\ probe' = [before |-> active_segment,
               age |-> IF edge # "none" THEN 1
                       ELSE IF probe.age = 0 \/ probe.age > kRetrigDelaySamples
                            THEN probe.age ELSE probe.age + 1,
               tooth |-> IF edge = "none" THEN probe.tooth ELSE edge = "tooth",
               updates |-> IF advanced THEN probe.updates + 1 ELSE probe.updates,
               primary |-> [i \in 0..(kMaxNumSegments - 1) |-> parameters[i].primary]]
  /\ UNCHANGED <<last_n, configures, aside_vars>>

\* primary.Next() at this iteration, and primary_ once the block is done.
PrimaryNext ==
  InterpolatorNext(primary, parameters[0].primary, block_size - size + 1, block_size)
PrimaryAfter == IF size = 1 THEN PrimaryNext ELSE primary

\* (not the code) A RISING selects if_rising whatever the retrig flag.
GoToSegmentAnyRising(segment, f, complete) ==
  IF f.rising THEN segment.if_rising
  ELSE IF f.falling THEN segment.if_falling
  ELSE IF complete THEN segment.if_complete
  ELSE -1

\* The transition ProcessMultiSegment decides on (-1: none).
GoToSegment(segment, f, complete) ==
  IF f.rising /\ segment.retrig THEN segment.if_rising
  ELSE IF f.falling THEN segment.if_falling
  ELSE IF complete THEN segment.if_complete
  ELSE -1

\* parameters_[active_segment_] (the sentinel of a six-segment configuration
\* has no parameter cell; no specification here configures six segments).
ActiveParameters ==
  parameters[IF active_segment < kMaxNumSegments THEN active_segment ELSE 0]

\* One iteration of the loop of ProcessMultiSegment.
ProcessMultiSegment(level) ==
  LET f == GateFlags(gate, level)
      segment == segments[active_segment]
  IN /\ process_fn = "MultiSegment"
     /\ \E freq \in (IF segment.time # NullPtr
                     THEN RateToFrequency(Deref(segment.time, parameters, segments))
                     ELSE {0}),
           coef \in PortamentoRateToLPCoefficient(
                      Deref(segment.portamento, parameters, segments)),
           flip \in Coin(ActiveParameters.primary),
           copied_bit \in CopiedBit(segment.shift_register,
                                    TuringSteps(ActiveParameters.secondary)) :
          LET ph1 == phase + freq
              complete == ph1 >= PhaseOne
              ph2 == IF complete THEN PhaseOne ELSE ph1
              t == IF segment.phase # NullPtr
                   THEN ValueToPhase(Deref(segment.phase, parameters, segments))
                   ELSE ph2
              v == Crossfade(start, Deref(segment.end, parameters, segments),
                             WarpPhase(t, Deref(segment.curve, parameters, segments)))
              go_to_segment == GoToSegment(segment, f, complete)
              segs == IF go_to_segment # -1 /\ segment.advance_tm
                      THEN [segments EXCEPT ![active_segment] =
                              advance_tm(segment, copied_bit, flip)]
                      ELSE segments
          IN /\ ph2 >= -MinPhase
             /\ NextSample(level, go_to_segment # -1 /\ segment.advance_tm, "none")
             /\ value' = v
             /\ lp' = ONE_POLE(lp, v, coef)
             /\ segments' = segs
             /\ IF go_to_segment # -1
                THEN /\ phase' = 0
                     /\ start' = IF segs[go_to_segment].start # NullPtr
                                 THEN Deref(segs[go_to_segment].start, parameters, segs)
                                 ELSE IF go_to_segment = active_segment
                                      THEN start ELSE v
                     /\ active_segment' = go_to_segment
                ELSE /\ phase' = ph2
                     /\ UNCHANGED <<start, active_segment>>
             /\ out' = [value |-> lp', phase |-> phase', segment |-> active_segment']
     /\ UNCHANGED <<graph_vars, parameters, aux, primary, retrig_delay, gate_delay>>

\* One iteration of the loop of ProcessDecayEnvelope.
ProcessDecayEnvelope(level) ==
  LET f == GateFlags(gate, level)
      accept == f.rising /\ (active_segment # 0 \/ segments[0].retrig)
      ph1 == (IF accept THEN 0 ELSE phase) + frequency
      done == ph1 >= PhaseOne
  IN /\ process_fn = "DecayEnvelope"
     /\ NextSample(level, FALSE, "none")
     /\ ph1 >= -MinPhase
     /\ phase' = IF done THEN PhaseOne ELSE ph1
     /\ active_segment' = IF done THEN 1 ELSE IF accept THEN 0 ELSE active_segment
     /\ value' = ParamOne - PhaseToValue(WarpPhase(phase', parameters[0].secondary))
     /\ lp' = value'
     /\ out' = [value |-> lp', phase |-> phase', segment |-> active_segment']
     /\ UNCHANGED <<graph_vars, segments, parameters, aux, start, primary,
                    retrig_delay, gate_delay>>

\* (not the code) The output is gated by the tooth counter as it was before
\* the decrement of the sample.
ProcessTimedPulseGeneratorLate(level) ==
  LET f == GateFlags(gate, level)
      accept == f.rising /\ (active_segment # 0 \/ segments[0].retrig)
      rd0 == IF accept
             THEN (IF active_segment = 0 THEN kRetrigDelaySamples ELSE 0)
             ELSE retrig_delay
      rd1 == IF rd0 # 0 THEN rd0 - 1 ELSE rd0
      ph1 == (IF accept THEN 0 ELSE phase) + frequency
      done == ph1 >= PhaseOne
  IN /\ process_fn = "TimedPulseGenerator"
     /\ NextSample(level, FALSE,
                   IF ~accept THEN "none"
                   ELSE IF active_segment = 0 THEN "tooth" ELSE "restart")
     /\ ph1 >= -MinPhase
     /\ retrig_delay' = rd1
     /\ phase' = IF done THEN PhaseOne ELSE ph1
     /\ active_segment' = IF done THEN 1 ELSE IF accept THEN 0 ELSE active_segment
     /\ value' = IF active_segment' = 0 /\ rd0 = 0 THEN PrimaryNext ELSE 0
     /\ lp' = value'
     /\ primary' = PrimaryAfter
     /\ out' = [value |-> lp', phase |-> phase', segment |-> active_segment']
     /\ UNCHANGED <<graph_vars, segments, parameters, aux, start, gate_delay>>

\* One iteration of the loop of ProcessTimedPulseGenerator.
ProcessTimedPulseGenerator(level) ==
  LET f == GateFlags(gate, level)
      accept == f.rising /\ (active_segment # 0 \/ segments[0].retrig)
      rd0 == IF accept
             THEN (IF active_segment = 0 THEN kRetrigDelaySamples ELSE 0)
             ELSE retrig_delay
      rd1 == IF rd0 # 0 THEN rd0 - 1 ELSE rd0
      ph1 == (IF accept THEN 0 ELSE phase) + frequency
      done == ph1 >= PhaseOne
  IN /\ process_fn = "TimedPulseGenerator"
     /\ NextSample(level, FALSE,
                   IF ~accept THEN "none"
                   ELSE IF active_segment = 0 THEN "tooth" ELSE "restart")
     /\ ph1 >= -MinPhase
     /\ retrig_delay' = rd1
     /\ phase' = IF done THEN PhaseOne ELSE ph1
     /\ active_segment' = IF done THEN 1 ELSE IF accept THEN 0 ELSE active_segment
     /\ value' = IF active_segment' = 0 /\ rd1 = 0 THEN PrimaryNext ELSE 0
     /\ lp' = value'
     /\ primary' = PrimaryAfter
     /\ out' = [value |-> lp', phase |-> phase', segment |-> active_segment']
     /\ UNCHANGED <<graph_vars, segments, parameters, aux, start, gate_delay>>

\* (not the code) The gate output is switched by the edges of the gate.
ProcessGateGeneratorEdges(level) ==
  LET f == GateFlags(gate, level)
  IN /\ process_fn = "GateGenerator"
     /\ NextSample(level, FALSE, "none")
     /\ active_segment' = IF f.rising THEN 0
                          ELSE IF f.falling THEN 1 ELSE active_segment
     /\ value' = IF active_segment' = 0 THEN PrimaryNext ELSE 0
     /\ lp' = value'
     /\ primary' = PrimaryAfter
     /\ out' = [value |-> lp', phase |-> PhaseOne \div 2, segment |-> active_segment']
     /\ UNCHANGED <<graph_vars, segments, parameters, phase, aux, start,
                    retrig_delay, gate_delay>>

\* One iteration of the loop of ProcessGateGenerator.
ProcessGateGenerator(level) ==
  LET f == GateFlags(gate, level)
  IN /\ process_fn = "GateGenerator"
     /\ NextSample(level, FALSE, "none")
     /\ active_segment' = IF f.high THEN 0 ELSE 1
     /\ value' = IF active_segment' = 0 THEN PrimaryNext ELSE 0
     /\ lp' = value'
     /\ primary' = PrimaryAfter
     /\ out' = [value |-> lp', phase |-> PhaseOne \div 2, segment |-> active_segment']
     /\ UNCHANGED <<graph_vars, segments, parameters, phase, aux, start,
                    retrig_delay, gate_delay>>

\* One iteration of the loop of ProcessPortamento (active_segment_ = 0 is
\* set before the loop).
ProcessPortamento(level) ==
  /\ process_fn = "Portamento"
  /\ NextSample(level, FALSE, "none")
  /\ \E coef \in PortamentoRateToLPCoefficient(parameters[0].secondary) :
       /\ value' = PrimaryNext
       /\ lp' = ONE_POLE(lp, value', coef)
  /\ active_segment' = 0
  /\ primary' = PrimaryAfter
  /\ out' = [value |-> lp', phase |-> PhaseOne \div 2, segment |-> 0]
  /\ UNCHANGED <<graph_vars, segments, parameters, phase, aux, start,
                 retrig_delay, gate_delay>>

\* One iteration of the loop of ProcessZero (value_ = 0 and
\* active_segment_ = 1 are set before the loop).
ProcessZero(level) ==
  /\ process_fn = "Zero"
  /\ NextSample(level, FALSE, "none")
  /\ value' = 0
  /\ active_segment' = 1
  /\ out' = [value |-> 0, phase |-> PhaseOne \div 2, segment |-> 1]
  /\ UNCHANGED <<graph_vars, segments, parameters, phase, aux, start, lp, primary,
                 retrig_delay, gate_delay>>

\* Values the delay line may return (its content is not kept).
DelayLineValues == {0, ParamOne}

\* One iteration of the loop of ProcessDelay, for a delay time below the line
\* capacity (clock_frequency = 1).
ProcessDelay(level) ==
  LET ph1 == phase + PhaseOne
      a1 == aux + frequency
      a2 == IF a1 >= PhaseOne THEN a1 - PhaseOne ELSE a1
  IN /\ process_fn = "Delay"
     /\ NextSample(level, FALSE, "none")
     /\ lp' = ONE_POLE(lp, PrimaryNext, CoefOne)
     /\ phase' = IF ph1 >= PhaseOne THEN ph1 - PhaseOne ELSE ph1
     /\ aux' = a2
     /\ active_segment' = IF 2 * a2 < PhaseOne THEN 0 ELSE 1
     /\ \E read \in DelayLineValues : value' = ONE_POLE(value, read, CoefOne)
     /\ primary' = PrimaryAfter
     /\ out' = [value |-> value', phase |-> aux', segment |-> active_segment']
     /\ UNCHANGED <<graph_vars, segments, parameters, start, retrig_delay, gate_delay>>

\* gate_delay_ after Write(flags), and what Read(kSampleAndHoldDelay) then
\* returns: the flags written kSampleAndHoldDelay samples before these.
GateDelayWrite(line, f) == <<f>> \o line
GateDelayRead(line) == line[kSampleAndHoldDelay + 1]

\* One iteration of the loop of ProcessSampleAndHold (track = FALSE) and of
\* ProcessTrackAndHold (track = TRUE).
ProcessHold(level, track) ==
  LET f == GateFlags(gate, level)
      line == GateDelayWrite(gate_delay, f)
      delayed == GateDelayRead(line)
      sample == IF track THEN delayed.high ELSE delayed.rising
  IN /\ NextSample(level, FALSE, "none")
     /\ gate_delay' = SubSeq(line, 1, kSampleAndHoldDelay)
     /\ value' = IF sample THEN PrimaryNext ELSE value
     /\ active_segment' = IF f.high THEN 0 ELSE 1
     /\ \E coef \in PortamentoRateToLPCoefficient(parameters[0].secondary) :
          lp' = ONE_POLE(lp, value', coef)
     /\ primary' = PrimaryAfter
     /\ out' = [value |-> lp', phase |-> PhaseOne \div 2, segment |-> active_segment']
     /\ UNCHANGED <<graph_vars, segments, parameters, phase, aux, start, retrig_delay>>

\* (not the code) The kernel samples while the delayed gate is HIGH.
ProcessSampleAndHoldLevel(level) ==
  process_fn = "SampleAndHold" /\ ProcessHold(level, TRUE)

ProcessSampleAndHold(level) ==
  process_fn = "SampleAndHold" /\ ProcessHold(level, FALSE)

ProcessTrackAndHold(level) ==
  process_fn = "TrackAndHold" /\ ProcessHold(level, TRUE)

\* One iteration of the loop of ProcessTuring.
ProcessTuring(level) ==
  LET f == GateFlags(gate, level)
      seg == segments[0]
  IN /\ process_fn = "Turing"
     /\ NextSample(level, f.rising, "none")
     /\ \E flip \in Coin(PrimaryNext),
           copied_bit \in CopiedBit(seg.shift_register,
                                    TuringSteps(parameters[0].secondary)) :
          /\ segments' = IF f.rising
                         THEN [segments EXCEPT ![0] = advance_tm(seg, copied_bit, flip)]
                         ELSE segments
     /\ value' = IF f.rising THEN segments'[0].register_value ELSE value
     /\ active_segment' = IF f.high THEN 0 ELSE 1
     /\ primary' = PrimaryAfter
     /\ out' = [value |-> segments'[0].register_value, phase |-> PhaseOne \div 2,
                segment |-> active_segment']
     /\ UNCHANGED <<graph_vars, parameters, phase, aux, start, lp, retrig_delay,
                    gate_delay>>

\* ----------------------------------------------------------- specification
\* Configurations of the given types, and the parameter pairs the callers
\* set: (0, 0), (1, 1) and a pair above the nominal range.
Configurations(types, polarities) ==
  [type : types, loop : BOOLEAN, bipolar : polarities, range : {"DEFAULT"}]
ParamPairs == {<<0, 0>>, <<ParamOne, ParamOne>>, <<ParamOne + 1, ParamOne + 1>>}
SlowPair == {<<ParamOne, ParamOne>>}

\* Configure with lo <= num_segments <= hi, lo >= 2.
ConfigureMulti(configurations, lo, hi) ==
  \E n \in lo..hi : \E cfg \in [0..(n - 1) -> configurations] :
    ConfigureMultiSegment(cfg, n)

\* Configure with num_segments = 1 selecting one of `modes`.
ConfigureSingleOf(modes, polarities) ==
  \E has_trigger \in BOOLEAN, config \in Configurations(Types, polarities),
     advanced \in BOOLEAN :
    /\ SingleSegmentFn(has_trigger, config, advanced) \in modes
    /\ ConfigureSingleSegment(has_trigger, config, advanced)

ConfigureSingle(modes) == ConfigureSingleOf(modes, BOOLEAN)

SetParameters(indices, pairs) ==
  \E i \in indices, ps \in pairs : set_segment_parameters(i, ps[1], ps[2])

Begin == \E n \in 1..MaxBlock : ProcessBegin(n)

\* One generator, configured once (any rendered mode, or two segments of any
\* types), then rendered block after block with any gate input.
Next ==
  \/ configures = 0 /\ ConfigureMulti(Configurations(Types, {FALSE}), 2, 2)
  \/ configures = 0 /\ ConfigureSingle(RenderedModes)
  \/ SetParameters(0..0, SlowPair)
  \/ Begin
  \/ \E level \in BOOLEAN : ProcessMultiSegment(level)
  \/ \E level \in BOOLEAN : ProcessDecayEnvelope(level)
  \/ \E level \in BOOLEAN : ProcessTimedPulseGenerator(level)
  \/ \E level \in BOOLEAN : ProcessGateGenerator(level)
  \/ \E level \in BOOLEAN : ProcessPortamento(level)
  \/ \E level \in BOOLEAN : ProcessSampleAndHold(level)
  \/ \E level \in BOOLEAN : ProcessTrackAndHold(level)
  \/ \E level \in BOOLEAN : ProcessZero(level)
  \/ \E level \in BOOLEAN : ProcessDelay(level)
  \/ \E level \in BOOLEAN : ProcessTuring(level)

Spec == Init /\ [][Next]_vars

\* The primary.Next() of the sample emitted last, read after that sample.
SampledPrimary ==
  IF size = 0 THEN probe.primary[0]
  ELSE InterpolatorNext(primary, probe.primary[0], block_size - size, block_size)

\* A step of a Process call: the code before the loop or one sample.
ProcessStep == size > 0 \/ size' > 0

\* C3: a Process call leaves the graph alone: every indirection, next-state
\* index and flag of every segment record, num_segments and the selected
\* process mode are after each of its steps what they were before.
C3_GraphFrame ==
  [][ProcessStep =>
       /\ SegmentGraph' = SegmentGraph
       /\ process_fn' = process_fn
       /\ num_segments' = num_segments]_vars

\* A Process call in Turing mode has advanced the register of segment 0.
C3_Witness ==
  /\ process_fn = "Turing" /\ emitted /\ probe.updates > 0
  /\ \E r \in InitRegisters : segments[0].shift_register # r

PulseNext ==
  \/ /\ configures = 0
     /\ ConfigureSingleOf({"GateGenerator", "TimedPulseGenerator",
                           "DecayEnvelope"}, {FALSE})
  \/ SetParameters(0..0, ParamPairs)
  \/ Begin
  \/ \E level \in BOOLEAN : ProcessGateGenerator(level)
  \/ \E level \in BOOLEAN : ProcessTimedPulseGenerator(level)
  \/ \E level \in BOOLEAN : ProcessDecayEnvelope(level)

PulseSpec == Init /\ [][PulseNext]_vars

\* C6: in Gate mode the value of a sample is the interpolated primary of
\* that sample when its flag has HIGH and 0 otherwise, and its segment is 0
\* when HIGH and 1 otherwise: a function of that sample's flag alone.
C6_GateOutput ==
  (process_fn = "GateGenerator" /\ emitted) =>
    /\ out.value = IF flags.high THEN SampledPrimary ELSE 0
    /\ out.segment = IF flags.high THEN 0 ELSE 1
    /\ active_segment = out.segment

\* The first sample of a two-sample block going from primary 0 to 1, the
\* gate being HIGH since an earlier sample: the value is the interpolated 1/2.
C6_Witness ==
  /\ process_fn = "GateGenerator" /\ emitted
  /\ block_size = 2 /\ size = 1 /\ primary = 0
  /\ probe.primary[0] = ParamOne
  /\ flags.high /\ ~flags.rising
  /\ out.value = ParamOne \div 2 /\ out.segment = 0

C8_AsStated ==
  [][(process_fn = "DecayEnvelope" /\ size > 0) =>
       LET accept == /\ gate' /\ ~gate
                     /\ (active_segment # 0 \/ segments[0].retrig)
       IN /\ accept => (phase' <= frequency \/ phase' = PhaseOne)
          /\ ~accept => phase' >= phase
          /\ (~accept /\ phase = PhaseOne /\ active_segment = 1)
               => (phase' = PhaseOne /\ active_segment' = 1)]_vars

\* ----------------------------------------------------------- the envelope
\* RAMP, RAMP, RAMP, HOLD (loop), RAMP.
AdsrConfiguration ==
  [i \in 0..4 |-> [type |-> IF i = 3 THEN "HOLD" ELSE "RAMP", loop |-> i = 3,
                   bipolar |-> FALSE, range |-> "DEFAULT"]]

\* The gate of the scenario: it rises when the generator rests in the
\* sentinel and falls when the generator holds in segment 3.
AdsrGate(level) ==
  /\ (level /\ ~gate) => active_segment = 5
  /\ (~level /\ gate) => active_segment = 3

AdsrNext ==
  \/ configures = 0 /\ ConfigureMultiSegment(AdsrConfiguration, 5)
  \/ SetParameters(0..4, SlowPair)
  \/ Begin
  \/ \E level \in BOOLEAN : AdsrGate(level) /\ ProcessMultiSegment(level)

AdsrSpec == Init /\ [][AdsrNext]_vars

\* C4: under that gate the generator leaves the sentinel 5 for segment 0 at
\* the RISING sample and at no other, goes from each of the segments 0, 1, 2
\* to the next one only, stays in segment 3 until the FALLING sample, which
\* moves it to segment 4, and goes from segment 4 to the sentinel only.
C4_Adsr ==
  (num_segments = 5 /\ emitted) =>
    /\ probe.before = 5 => active_segment = IF flags.rising THEN 0 ELSE 5
    /\ probe.before \in 0..2 => active_segment \in {probe.before, probe.before + 1}
    /\ probe.before = 3 => active_segment = IF flags.falling THEN 4 ELSE 3
    /\ probe.before = 4 => active_segment \in {4, 5}
    /\ active_segment = 3 => gate

\* The release has completed: the generator is back in the sentinel, the
\* gate having fallen.
C4_Witness ==
  /\ num_segments = 5 /\ emitted
  /\ probe.before = 4 /\ active_segment = 5 /\ ~gate

\* ------------------------------------------------------- the two HOLDs
\* HOLD, HOLD, no loop bit.
TwoStepConfiguration ==
  [i \in 0..1 |-> [type |-> "HOLD", loop |-> FALSE, bipolar |-> FALSE,
                   range |-> "DEFAULT"]]

TwoStepNext ==
  \/ configures = 0 /\ ConfigureMultiSegment(TwoStepConfiguration, 2)
  \/ SetParameters(0..1, ParamPairs)
  \/ Begin
  \/ \E level \in BOOLEAN : ProcessMultiSegment(level)

TwoStepSpec == Init /\ [][TwoStepNext]_vars

\* C5 (as amended): every RISING makes segment 0 the active segment; the
\* generator goes from segment 0 to segment 1, and from segment 1 to the
\* sentinel, only on a sample without gate edge (when the hold time is
\* over); the value of a sample is the primary of the segment it was
\* rendered in.
C5_TwoHolds ==
  (num_segments = 2 /\ emitted) =>
    /\ flags.rising => active_segment = 0
    /\ (active_segment # probe.before /\ active_segment # 0)
         => /\ active_segment = probe.before + 1
            /\ ~flags.rising /\ ~flags.falling
    /\ probe.before \in 0..1 => out.value = probe.primary[probe.before]

\* A RISING that arrives during segment 0 starts segment 0 again.
C5_Witness ==
  /\ num_segments = 2 /\ emitted
  /\ flags.rising /\ probe.before = 0 /\ active_segment = 0

\* C5 as stated: each RISING switches the active segment from one of the
\* two segments to the other.
C5_AsStated ==
  (num_segments = 2 /\ emitted /\ flags.rising /\ probe.before \in 0..1)
    => active_segment = 1 - probe.before

\* ------------------------------------------------------ reconfiguration
\* One generator configured up to MaxConfigures times: envelopes of RAMP
\* segments and the single-segment decay envelope.
LifecycleNext ==
  \/ /\ configures < MaxConfigures
     /\ ConfigureMulti(Configurations({"RAMP"}, BOOLEAN), 2, MaxSegs)
  \/ configures < MaxConfigures /\ ConfigureSingle({"DecayEnvelope"})
  \/ SetParameters(0..0, SlowPair)
  \/ Begin
  \/ \E level \in BOOLEAN : ProcessMultiSegment(level)
  \/ \E level \in BOOLEAN : ProcessDecayEnvelope(level)

\* A build in which the fields Init leaves unset read as 0 and false.
ZeroedInit == Init /\ aux = 0 /\ ~segments[0].advance_tm

LifecycleSpec == ZeroedInit /\ [][LifecycleNext]_vars

\* C1 as stated: every sample emitted after the most recent Configure has
\* its phase in [0, 1] and its segment in [0, n], n being the segment count
\* of that Configure.
C1_AsStated ==
  emitted => /\ out.phase >= 0 /\ out.phase <= PhaseOne
             /\ out.segment >= 0 /\ out.segment <= last_n

\* C2 as stated: right after Configure with n >= 2 the generator is in the
\* sentinel n, and a RISING flag processed while it is still there moves it
\* to segment 0, whatever was configured before.
C2_AsStated ==
  /\ (process_fn = "MultiSegment" /\ num_segments >= 2 /\ ~emitted)
       => active_segment = last_n
  /\ (process_fn = "MultiSegment" /\ emitted /\ flags.rising
        /\ probe.before = last_n)
       => active_segment = 0

\* ------------------------------------------------- the Turing update alone
\* Registers the update rule is applied to: every single bit, the extremes,
\* the low values and three mixed patterns.
TuringRegisters ==
  {Pow2(k) : k \in 0..(kRegisterBits - 1)} \cup (0..63)
    \cup {Pow2(kRegisterBits) - 1, 46019, 21845, 43690}

\* A register and a step count are chosen; nothing has been applied yet.
TuringInit ==
  /\ GeneratorInit /\ HarnessInit /\ request = NoRequest
  /\ rx = [state |-> ExtractorReset, call |-> NoCall]
  /\ \E sr \in TuringRegisters, steps \in 1..kRegisterBits :
       turing = [sr |-> sr, steps |-> steps, initial |-> sr, count |-> 0]

\* advance_tm(steps, 0.0f, shift_register, register_value, bipolar), at most
\* kRegisterBits times.
TuringStep ==
  /\ turing.count < kRegisterBits
  /\ \E copied_bit \in CopiedBit(turing.sr, turing.steps), flip \in Coin(0) :
       turing' = [turing EXCEPT !.sr = AdvanceRegister(turing.sr, copied_bit, flip),
                        !.count = turing.count + 1]
  /\ UNCHANGED <<graph_vars, segments, parameters, runtime_vars, block_vars,
                 input_vars, out, emitted, last_n, configures, probe, rx, request>>

TuringNext == TuringStep

TuringSpec == TuringInit /\ [][TuringNext]_vars

\* The `steps` most significant bits of a register.
TopBits(sr, steps) == sr \div Pow2(kRegisterBits - steps)

\* C9 (as amended): with probability 0 the update rotates the `steps` most
\* significant bits of the register, so after `steps` updates those bits are
\* the initial ones again; the whole register is back at its initial value
\* after 16 updates when steps = 16.
C9_TopBitsRotate ==
  /\ turing.count = turing.steps => TopBits(turing.sr, turing.steps) = TopBits(turing.initial, turing.steps)
  /\ (turing.count = kRegisterBits /\ turing.steps = kRegisterBits) => turing.sr = turing.initial

\* A mixed register is back after 16 updates with steps = 16.
C9_Witness ==
  /\ turing.count = kRegisterBits /\ turing.steps = kRegisterBits
  /\ turing.initial = 46019 /\ turing.sr = 46019

\* C9 as stated: for every step count in 1..16 the register is back at its
\* initial value after 16 updates with probability 0.
C9_AsStated == turing.count = kRegisterBits => turing.sr = turing.initial

\* ------------------------------------------------- RampExtractor::Process
\* ramp_extractor_.Process(ratio, gate_flags, ramp, n) up to its loop.
ExtractorCall(n, ratio) ==
  /\ rx.call.size = 0
  /\ \E m \in (IF rx.state.written THEN {rx.state.max_train_phase}
               ELSE UninitTrainPhase) :
       rx' = [state |-> [rx.state EXCEPT !.max_train_phase = m,
                                         !.written = TRUE],
              call |-> [rx.call EXCEPT
                          !.size = n, !.ratio = ratio,
                          !.threshold_hysteresis = rx.state.audio_hysteresis]]

\* A call of RampExtractor::Process on its own.
ExtractorBegin(n) ==
  /\ ExtractorCall(n, rx.call.ratio)
  /\ UNCHANGED <<graph_vars, segments, parameters, runtime_vars, block_vars,
                 input_vars, out, emitted, last_n, configures, probe, turing,
                 request>>

\* The state after the RISING branch of the loop, with what the edge did;
\* `predicted` is the frequency the predictor gives.
ExtractorRising(e, c, predicted) ==
  LET period == e.total_duration
      ratio == c.ratio
  IN IF ~RecordPulse(period, e.reset_interval)
     THEN [state |-> [e EXCEPT !.train_phase = 0,
                               !.reset_counter = ratio.q,
                               !.f_ratio = ratio.ratio,
                               !.max_train_phase = ratio.q * PhaseOne,
                               !.frequency = predicted,
                               !.target_frequency = predicted,
                               !.reset_interval = 4 * period,
                               !.total_duration = 0],
           edge |-> "lost"]
     ELSE IF WithinAudioRate(period, c.threshold_hysteresis, ratio.ratio) /\ period > 0
     THEN LET f == PhaseOne \div period
              t0 == Scaled(ratio.ratio, f)
              target == IF t0 < PhaseOne \div MinPeriod THEN t0
                        ELSE PhaseOne \div MinPeriod
              no_glide ==
                \/ e.f_ratio # ratio.ratio
                \/ 100 * period * target > (102 * period + 200) * e.frequency
                \/ 100 * period * target < (98 * period - 200) * e.frequency
          IN [state |-> [e EXCEPT !.audio_rate = TRUE,
                                  !.audio_hysteresis = TRUE,
                                  !.f_ratio = ratio.ratio,
                                  !.target_frequency = target,
                                  !.lp_coefficient =
                                    IF no_glide THEN CoefOne ELSE 0,
                                  !.current_pulse = NextPulse(e.current_pulse),
                                  !.total_duration = 0],
              edge |-> "audio"]
     ELSE LET short == WithinMinPeriod(period, e.min_hysteresis)
              f0 == IF short
                    THEN (IF period = 0 THEN kSampleRate * PhaseOne
                          ELSE PhaseOne \div period)
                    ELSE predicted
              d == Divider(e.reset_counter, ratio.q)
              warp == e.max_train_phase - d.reset_counter * PhaseOne
                        - e.train_phase + PhaseOne
              f1 == IF d.reset THEN f0
                    ELSE IF 100 * warp > PhaseOne THEN (f0 * warp) \div PhaseOne
                    ELSE f0 \div 100
              fr == IF d.reset THEN ratio.ratio ELSE e.f_ratio
              target == Scaled(fr, f1)
          IN [state |-> [e EXCEPT !.audio_rate = FALSE,
                                  !.audio_hysteresis = FALSE,
                                  !.min_hysteresis = short,
                                  !.frequency = f1,
                                  !.reset_counter = d.reset_counter,
                                  !.train_phase =
                                    IF d.reset THEN 0 ELSE e.train_phase,
                                  !.f_ratio = fr,
                                  !.max_train_phase =
                                    IF d.reset THEN ratio.q * PhaseOne
                                    ELSE e.max_train_phase,
                                  !.target_frequency = target,
                                  !.reset_interval = ResetInterval(target),
                                  !.current_pulse = NextPulse(e.current_pulse),
                                  !.total_duration = 0],
              edge |-> IF d.reset THEN "reset" ELSE "keep"]

\* One iteration of the audio-rate loop on state e.
ExtractorAudioSample(e) ==
  LET total == e.total_duration + 1
      f == ONE_POLE(e.frequency, e.target_frequency, e.lp_coefficient)
      tp1 == e.train_phase + f
      wrapped == tp1 > PhaseOne
      stalled == /\ wrapped
                 /\ 2 * RatioOne * total * e.target_frequency
                      > 3 * PhaseOne * e.f_ratio
      tp2 == IF stalled THEN PhaseOne
             ELSE IF wrapped THEN tp1 - PhaseOne ELSE tp1
  IN [state |-> [e EXCEPT !.total_duration = total,
                          !.frequency = IF stalled THEN 0 ELSE f,
                          !.target_frequency =
                            IF stalled THEN 0 ELSE e.target_frequency,
                          !.train_phase = tp2],
      ramp |-> tp2]

\* One iteration of the low-rate loop on state e; `locked` is the frequency
\* a FALLING flag leaves (the current one when the pulse width is not locked).
ExtractorLowSample(e, locked) ==
  LET total == e.total_duration + 1
      tp1 == e.train_phase + locked
      tp2 == IF tp1 >= e.max_train_phase THEN e.max_train_phase ELSE tp1
      ph == (tp2 * e.f_ratio) \div RatioOne
  IN [state |-> [e EXCEPT !.total_duration = total,
                          !.frequency = locked,
                          !.train_phase = tp2],
      ramp |-> ph % PhaseOne]

\* Low-rate recorded RISING edges since the last reset of train_phase, the
\* number of such edges from one reset to the next, and the resets counted
\* (up to 2).
EdgeCount(c, edge) ==
  IF edge \in {"reset", "lost"}
  THEN [c EXCEPT !.edge = edge, !.since = 0,
                 !.gap = IF edge = "reset" THEN c.since + 1 ELSE 0,
                 !.resets = IF c.resets < 2 THEN c.resets + 1 ELSE 2]
  ELSE IF edge = "keep"
  THEN [c EXCEPT !.edge = edge, !.since = c.since + 1]
  ELSE [c EXCEPT !.edge = edge]

\* One sample of the loop of RampExtractor::Process: the RISING branch when
\* the flag is set, then one iteration of the loop of the regime.
ExtractorStep(level) ==
  LET f == GateFlags(rx.call.gate, level)
  IN /\ rx.call.size > 0
     /\ rx.state.total_duration < MaxDuration \/ f.rising
     /\ \E predicted \in PredictedFrequency :
          LET r == IF f.rising
                   THEN ExtractorRising(rx.state, rx.call, predicted)
                   ELSE [state |-> rx.state, edge |-> "none"]
              e == r.state
          IN \E locked \in (IF f.falling /\ ~e.audio_rate
                            THEN {e.frequency} \cup
                                 PulseWidthFrequency(e.train_phase,
                                   e.max_train_phase, e.reset_counter)
                            ELSE {e.frequency}) :
               LET s == IF e.audio_rate THEN ExtractorAudioSample(e)
                        ELSE ExtractorLowSample(e, locked)
                   c == EdgeCount(rx.call, r.edge)
               IN /\ s.state.train_phase <= MaxTrainPhase
                  /\ rx' = [state |-> s.state,
                         call |-> [c EXCEPT !.size = rx.call.size - 1,
                                               !.gate = level,
                                               !.ramp = s.ramp]]

\* One sample of a call of RampExtractor::Process on its own.
ExtractorSample(level) ==
  /\ ExtractorStep(level)
  /\ UNCHANGED <<graph_vars, segments, parameters, runtime_vars, block_vars,
                 input_vars, out, emitted, last_n, configures, probe, turing,
                 request>>

\* ------------------------------------------------------------ the tap LFO
\* float ramp[12], scaled down.
kRampSize == 2
\* Largest block of a ProcessTapLFO call.
MaxTapBlock == 3
\* Longest pulse the tap LFO is fed.
MaxTapPulse == 5

\* The entries ramp_division_quantizer_.Lookup(divider_ratios, primary *
\* 1.03, 7) may give: the middle entry (1:1) for a primary of 1/2, else any
\* entry the model keeps.
LookupRatio(primary_value) ==
  IF primary_value = ParamOne \div 2
  THEN {r \in Ratios : r.q = 1 /\ r.ratio < RatioOne}
  ELSE Ratios

\* ShapeLFO: phase_shift = plateau_width / 4 with plateau_width =
\* max(shape - 3, 0) and shape = 2 + 10 s / (1 + 3 |s|), s = secondary - 1/2.
PhaseShift(secondary) ==
  LET a == 2 * secondary - ParamOne
      b == IF a < 0 THEN -a ELSE a
      w == 7 * a - 2 * ParamOne
  IN IF w <= 0 THEN 0 ELSE (PhaseOne * w) \div (4 * (2 * ParamOne + 3 * b))

\* ShapeLFO: in_out->segment
ShapedSegment(ph, secondary) ==
  LET shifted == ph + PhaseShift(secondary)
      wrapped == IF shifted > PhaseOne THEN shifted - PhaseOne ELSE shifted
  IN IF 2 * wrapped < PhaseOne THEN 0 ELSE 1

\* ShapeLFO: in_out->value, for the triangle of slope 1/2 without plateau
\* and without sine (the shape of secondary = 1/2): amplitude * triangle +
\* offset, the triangle running from -1 to 1.
ShapedValue(ph, bipolar) ==
  LET up == IF 2 * ph < PhaseOne THEN 2 * ph ELSE 2 * (PhaseOne - ph)
      triangle == 2 * up - PhaseOne
  IN IF bipolar THEN (10 * ParamOne * triangle) \div (16 * PhaseOne)
     ELSE (ParamOne * (triangle + PhaseOne)) \div (2 * PhaseOne)

\* ProcessTapLFO up to the call of ramp_extractor_.Process, which is handed
\* the 12-element buffer and the whole block.
TapBegin(n) ==
  /\ process_fn = "TapLFO"
  /\ size = 0
  /\ \E r \in LookupRatio(parameters[0].primary) : ExtractorCall(n, r)
  /\ size' = n /\ block_size' = n /\ frequency' = 0
  /\ UNCHANGED <<graph_vars, segments, parameters, runtime_vars, input_vars,
                 out, emitted, last_n, configures, probe, turing,
                 request>>

\* What reading ramp[i] gives: the sample written, or, past the end of the
\* buffer, whatever the stack holds by then.
RampRead(i, sample) ==
  IF i < kRampSize THEN {sample} ELSE {sample} \cup UninitFloat

\* Sample i of ProcessTapLFO: the extractor writes ramp[i], the kernel
\* copies it to out[i].phase and shapes it; active_segment_ takes the
\* segment of the last sample.
ProcessTapLFO(level) ==
  LET i == block_size - size
  IN /\ process_fn = "TapLFO"
     /\ size > 0
     /\ ExtractorStep(level)
     /\ size' = size - 1 /\ gate' = level /\ flags' = GateFlags(gate, level)
     /\ emitted' = TRUE
     /\ \E ph \in RampRead(i, rx'.call.ramp) :
          LET seg == ShapedSegment(ph, parameters[0].secondary)
          IN /\ out' = [value |-> ShapedValue(ph, segments[0].bipolar),
                        phase |-> ph, segment |-> seg]
             /\ active_segment' = IF size = 1 THEN seg ELSE active_segment
     /\ UNCHANGED <<graph_vars, segments, parameters, phase, aux, start, value,
                    lp, primary, retrig_delay, gate_delay, block_size,
                    frequency, last_n, configures, probe, turing,
                 request>>

\* primary = secondary = 1/2
MidPair == {<<ParamOne \div 2, ParamOne \div 2>>}

\* A tap LFO at the 1:1 ratio.
TapNext ==
  \/ configures = 0 /\ ConfigureSingleOf({"TapLFO"}, {TRUE})
  \/ SetParameters(0..0, MidPair)
  \/ \E n \in 1..MaxTapBlock :
       parameters[0].primary = ParamOne \div 2 /\ TapBegin(n)
  \/ \E level \in BOOLEAN :
       /\ rx.state.total_duration < MaxTapPulse \/ (level /\ ~rx.call.gate)
       /\ ProcessTapLFO(level)

TapSpec == ZeroedInit /\ [][TapNext]_vars

\* C13 as stated: no call of the extractor made by ProcessTapLFO writes
\* more samples than the ramp buffer has elements.
C13_AsStated ==
  (process_fn = "TapLFO" /\ emitted) => block_size - size <= kRampSize

\* The ratios the extractor is checked with: a divider and a multiplier.
ExtractorRatios == {r \in Ratios : r.q = 3 \/ r.ratio > RatioOne}

\* The extractor as SegmentGenerator::Init leaves it; every call of a
\* behaviour passes `ratio`.
ExtractorInit ==
  /\ GeneratorInit /\ HarnessInit /\ turing = NoRegister
  /\ request = NoRequest
  /\ aux = 0 /\ ~segments[0].advance_tm
  /\ \E ratio \in ExtractorRatios :
       rx = [state |-> ExtractorReset, call |-> [NoCall EXCEPT !.ratio = ratio]]

\* Sizes of the blocks handed to RampExtractor::Process.
RampBlocks == {1, 2}

ExtractorNext ==
  \/ \E n \in RampBlocks : ExtractorBegin(n)
  \/ \E level \in BOOLEAN : ExtractorSample(level)

ExtractorSpec == ExtractorInit /\ [][ExtractorNext]_vars

\* C10: with the same (ratio, q) at every call, the divider counter
\* reset_counter stays in 1..q; once train_phase has been reset it equals q
\* minus the number of low-rate RISING edges recorded since that reset, so
\* a low-rate edge resets train_phase exactly when it is the q-th since the
\* previous reset, and the phase restarts from 0 at that sample.
C10_DividerResets ==
  LET c == rx.call
      e == rx.state
      q == c.ratio.q
  IN /\ e.reset_counter \in 1..q
     /\ c.resets >= 1 => e.reset_counter + c.since = q
     /\ (c.edge = "reset" /\ c.resets >= 2) => c.gap = q
     /\ c.edge = "keep" => c.since \in 1..(q - 1)
     /\ c.edge = "reset" => e.train_phase <= e.frequency

\* The third low-rate edge after a reset resets train_phase again (q = 3).
C10_Witness ==
  /\ rx.call.ratio.q = 3 /\ rx.call.edge = "reset"
  /\ rx.call.resets >= 2 /\ rx.call.gap = 3
  /\ rx.state.reset_counter = 3

\* The sample that carries a RISING flag.
RisingSample ==
  /\ rx.call.size > 0 /\ rx'.call.size = rx.call.size - 1
  /\ ~rx.call.gate /\ rx'.call.gate

\* C11 (as amended): a RISING edge triggers the tap-loss reset exactly when
\* the pulse that just ended is at least as long as reset_interval; then
\* current_pulse stays, its slot restarts from zero durations, reset_counter
\* becomes q, frequency = target_frequency and the train phase restarts from
\* 0 (it has advanced by one sample of that frequency); a shorter pulse is
\* recorded: current_pulse advances to the next slot, which starts at zero.
C11_TapLoss ==
  [][RisingSample =>
       LET e == rx.state
           lost == e.total_duration >= e.reset_interval
       IN /\ rx'.state.total_duration = 1
          /\ (rx'.call.edge = "lost") <=> lost
          /\ lost => /\ rx'.state.current_pulse = e.current_pulse
                      /\ rx'.state.reset_counter = rx.call.ratio.q
                      /\ rx'.state.f_ratio = rx.call.ratio.ratio
                      /\ rx'.state.max_train_phase = rx.call.ratio.q * PhaseOne
                      /\ rx'.state.target_frequency \in PredictedFrequency
                      /\ rx'.state.frequency = rx'.state.target_frequency
                      /\ rx'.state.train_phase = rx'.state.frequency
          /\ ~lost => rx'.state.current_pulse = NextPulse(e.current_pulse)]_vars

\* After a recorded pulse, an over-long pulse has just been dropped (q = 3):
\* the slot index is still 1 and the new pulse is one sample old.
C11_Witness ==
  /\ rx.call.edge = "lost" /\ rx.state.total_duration = 1
  /\ rx.state.current_pulse = 1 /\ rx.state.reset_counter = 3
  /\ rx.state.train_phase = rx.state.frequency /\ rx.state.frequency > 0

\* C11 as stated: the reset is triggered exactly by a pulse strictly longer
\* than reset_interval.
C11_AsStated ==
  [][RisingSample =>
       ((rx'.state.current_pulse = rx.state.current_pulse)
          <=> rx.state.total_duration > rx.state.reset_interval)]_vars

\* C12 as stated: at every emitted sample train_phase lies in
\* [0, max_train_phase] in the low-rate regime and in [0, 1] in the
\* audio-rate regime, and the ramp sample lies in [0, 1].
C12_AsStated ==
  rx.state.total_duration >= 1 =>
    /\ rx.state.train_phase >= 0
    /\ rx.call.ramp >= 0 /\ rx.call.ramp <= PhaseOne
    /\ rx.state.audio_rate => rx.state.train_phase <= PhaseOne
    /\ ~rx.state.audio_rate => rx.state.train_phase <= rx.state.max_train_phase

\* ------------------------------------------------------ kernel dispatch
\* One generator configured as a single segment again and again, with any
\* type, trigger patch, loop flag, polarity and multimode setting.
DispatchNext ==
  \/ /\ configures < MaxConfigures
     /\ \E has_trigger \in BOOLEAN, config \in Configurations(Types, BOOLEAN),
           advanced \in BOOLEAN :
          ConfigureSingleSegment(has_trigger, config, advanced)
  \/ SetParameters(0..0, ParamPairs)

DispatchSpec == ZeroedInit /\ [][DispatchNext]_vars

\* The table of the specification: rows by type, columns by
\* (has_trigger, low bit).
TableCell(type, has_trigger, low) ==
  CASE type = "RAMP" ->
         IF has_trigger THEN (IF low THEN "TapLFO" ELSE "DecayEnvelope")
                        ELSE (IF low THEN "FreeRunningLFO" ELSE "Zero")
    [] type = "STEP" ->
         IF has_trigger THEN (IF low THEN "TrackAndHold" ELSE "SampleAndHold")
                        ELSE "Portamento"
    [] type = "HOLD" ->
         IF has_trigger THEN (IF low THEN "GateGenerator"
                                     ELSE "TimedPulseGenerator")
                        ELSE "Delay"
    [] type = "TURING" ->
         IF has_trigger THEN (IF low THEN "Logistic" ELSE "Turing")
                        ELSE "Random"

\* The basic variant of a cell: Sample-and-Hold at STEP/(trigger, low bit),
\* Zero in the TURING row, the advanced cell elsewhere.
BasicCell(type, has_trigger, low) ==
  IF type = "TURING" THEN "Zero"
  ELSE IF type = "STEP" /\ has_trigger /\ low THEN "SampleAndHold"
  ELSE TableCell(type, has_trigger, low)

\* The kernel a single-segment Configure leaves selected is the cell the low
\* bit `low(config)` names.
Dispatched(has_trigger, config, advanced, low) ==
  ConfigureSingleSegment(has_trigger, config, advanced) =>
    process_fn' = IF advanced THEN TableCell(config.type, has_trigger, low)
                  ELSE BasicCell(config.type, has_trigger, low)

\* C15 (amended): the two 16-entry tables, indexed by
\* (type << 2) | (has_trigger << 1) | loop, hold the kernels of the
\* specification's table, and the basic table differs from the advanced one
\* exactly at entry 7 (Sample-and-Hold for Track-and-Hold) and at entries
\* 12..15 (Zero).
C15_Dispatch ==
  [][/\ \A has_trigger \in BOOLEAN, config \in Configurations(Types, BOOLEAN),
          advanced \in BOOLEAN :
          Dispatched(has_trigger, config, advanced, config.loop)
     /\ Len(process_fn_table) = 16 /\ Len(advanced_process_fn_table) = 16
     /\ \A i \in 1..16 :
          (process_fn_table[i] # advanced_process_fn_table[i])
            <=> i \in {8, 13, 14, 15, 16}]_vars

\* Track-and-Hold selected for a unipolar looping STEP with a trigger.
C15_Witness ==
  /\ process_fn = "TrackAndHold" /\ ~segments[0].bipolar /\ configures = 2

\* C15 as stated: the low bit of the index is the bipolar flag.
C15_AsStated ==
  [][\A has_trigger \in BOOLEAN, config \in Configurations(Types, BOOLEAN),
        advanced \in BOOLEAN :
        Dispatched(has_trigger, config, advanced, config.bipolar)]_vars

\* C16 as stated: Init leaves aux at 0, gives every segment record one
\* advance_tm flag and the ramp extractor a written max_train_phase, so that
\* the delay kernel, which adds to aux and wraps it once, emits a phase
\* below 1.
C16_AsStated ==
  /\ (configures = 0 /\ ~emitted) =>
       /\ phase = 0 /\ aux = 0 /\ start = 0 /\ value = 0 /\ lp = 0
       /\ primary = 0 /\ active_segment = 0 /\ retrig_delay = 0
       /\ \A i \in DOMAIN segments : ~segments[i].advance_tm
       /\ rx.state.written
  /\ (process_fn = "Delay" /\ emitted) => out.phase < PhaseOne

\* ------------------------------------------------- parameters out of range
\* One generator configured once as a portamento, a sample-and-hold or a
\* Turing kernel, with parameters in and above the nominal range.
RangeNext ==
  \/ /\ configures = 0
     /\ ConfigureSingleOf({"Portamento", "SampleAndHold", "Turing"}, {FALSE})
  \/ SetParameters(0..0, ParamPairs)
  \/ Begin
  \/ \E level \in BOOLEAN : ProcessPortamento(level)
  \/ \E level \in BOOLEAN : ProcessSampleAndHold(level)
  \/ \E level \in BOOLEAN : ProcessTuring(level)

RangeSpec == ZeroedInit /\ [][RangeNext]_vars

\* C17 as stated: the index RateToFrequency reads lut_env_frequency at, for
\* the rate of the block being rendered, is in 0..LUT_ENV_FREQUENCY_SIZE - 1.
C17_AsStated ==
  /\ (process_fn = "DecayEnvelope" /\ size > 0) =>
       RateToFrequencyIndex(parameters[0].primary)
         \in 0..(LUT_ENV_FREQUENCY_SIZE - 1)
  /\ (process_fn = "TimedPulseGenerator" /\ size > 0) =>
       RateToFrequencyIndex(parameters[0].secondary)
         \in 0..(LUT_ENV_FREQUENCY_SIZE - 1)

\* C18 as stated: the index PortamentoRateToLPCoefficient reads
\* lut_portamento_coefficient at, for the secondary of the block being
\* rendered, is inside the table.
C18_AsStated ==
  (process_fn \in {"Portamento", "SampleAndHold"} /\ size > 0) =>
    PortamentoIndex(parameters[0].secondary)
      \in 0..(LUT_PORTAMENTO_COEFFICIENT_SIZE - 1)

\* C19 as stated: the step count of the Turing kernel, for the secondary of
\* the block being rendered, is in 1..16.
C19_AsStated ==
  (process_fn = "Turing" /\ size > 0) =>
    TuringSteps(parameters[0].secondary) \in 1..kRegisterBits

\* ------------------------------------------------- the multi-segment engine
\* One generator configured once with two or three RAMP and HOLD segments of
\* any loop flag and polarity, then rendered with any gate input.
EngineNext ==
  \/ /\ configures = 0
     /\ ConfigureMulti(Configurations({"RAMP", "HOLD"}, BOOLEAN), 2, 3)
  \/ SetParameters(0..0, SlowPair)
  \/ Begin
  \/ \E level \in BOOLEAN : ProcessMultiSegment(level)

EngineSpec == ZeroedInit /\ [][EngineNext]_vars

\* The increments the active segment's phase may take at this sample.
ActiveFrequencies ==
  LET segment == segments[active_segment]
  IN IF segment.time # NullPtr
     THEN RateToFrequency(Deref(segment.time, parameters, segments))
     ELSE {0}

\* The sample follows the link `target` (-1: it stays where it is).
Follows(target) ==
  IF target = -1
  THEN active_segment' = active_segment /\ start' = start
  ELSE active_segment' = target /\ phase' = 0

\* C20: a sample of the multi-segment engine follows at most one link of the
\* segment it is in: if_rising on a RISING when that segment's retrig flag is
\* set, else if_falling on a FALLING, else if_complete when the phase has
\* reached 1, else none; a RISING on a segment whose retrig flag is clear is
\* decided by the completion rule alone.
C20_OneTransition ==
  [][(process_fn = "MultiSegment" /\ size > 0 /\ size' = size - 1) =>
       LET segment == segments[active_segment]
           can == \E freq \in ActiveFrequencies : phase + freq >= PhaseOne
           must == \A freq \in ActiveFrequencies : phase + freq >= PhaseOne
       IN /\ (flags'.rising /\ segment.retrig) => Follows(segment.if_rising)
          /\ flags'.falling => Follows(segment.if_falling)
          /\ (~flags'.falling /\ ~(flags'.rising /\ segment.retrig)) =>
               /\ must => Follows(segment.if_complete)
               /\ ~can => Follows(-1)
               /\ Follows(segment.if_complete) \/ Follows(-1)
          /\ probe'.updates <= probe.updates + 1]_vars

\* A RISING met a segment whose retrig flag is clear, and the sample went to
\* that segment's if_complete, which is neither the segment nor its if_rising.
C20_Witness ==
  /\ process_fn = "MultiSegment" /\ emitted /\ flags.rising
  /\ ~segments[probe.before].retrig
  /\ active_segment = segments[probe.before].if_complete
  /\ active_segment # probe.before
  /\ active_segment # segments[probe.before].if_rising

\* ------------------------------------------------------------- the wiring
\* Largest num_segments of the Configure call under study.
MaxWiring == 4

\* Configure(has_trigger, segment_configuration, n) for every array of n
\* types and loop flags, all segments unipolar or all bipolar.
RequestsOf(n) ==
  {[num_segments |-> n,
    segment_configuration |->
      [i \in 0..(n - 1) |-> [shape[i] EXCEPT !.bipolar = b]]] :
     shape \in [0..(n - 1) -> Configurations(Types, {FALSE})], b \in BOOLEAN}

WiringInit ==
  /\ GeneratorInit /\ HarnessInit /\ turing = NoRegister
  /\ rx = [state |-> ExtractorReset, call |-> NoCall]
  /\ aux = 0 /\ ~segments[0].advance_tm
  /\ \E n \in 2..MaxWiring : request \in RequestsOf(n)

WiringNext ==
  /\ configures = 0
  /\ ConfigureMultiSegment(request.segment_configuration, request.num_segments)

WiringSpec == WiringInit /\ [][WiringNext]_vars

\* The call under study has been made.
Wired == configures = 1 /\ num_segments = request.num_segments

\* The segments of the request, those carrying the loop bit, the loop window
\* they span and the STEP-like ones.
Indices == 0..(request.num_segments - 1)
Looping == {i \in Indices : request.segment_configuration[i].loop}
Window ==
  {i \in Indices : (\E a \in Looping : a <= i) /\ (\E b \in Looping : i <= b)}
StepLike == {i \in Indices : is_step(request.segment_configuration[i])}
TypeOf(i) == request.segment_configuration[i].type

\* C21 (amended): after Configure of a multi-segment configuration that
\* contains a STEP-like segment and has a loop window WITHOUT a STEP-like
\* segment inside, every segment of the window has
\* if_rising = (loop_end + 1) mod n; when a STEP-like segment lies inside
\* the window, if_rising of every segment of the window stays inside it.
C21_RisingEndsLoop ==
  (Wired /\ StepLike # {} /\ Window # {}) =>
    \A i \in Window :
      /\ (StepLike \cap Window = {}) =>
           segments[i].if_rising = (Max(Window) + 1) % request.num_segments
      /\ (StepLike \cap Window # {}) => segments[i].if_rising \in Window

\* A loop without STEP inside, followed by a further segment, is left for
\* that segment on a RISING.
C21_Witness ==
  /\ Wired /\ StepLike # {} /\ Window # {} /\ StepLike \cap Window = {}
  /\ Max(Window) + 1 < request.num_segments
  /\ Min(Window) < Max(Window)
  /\ segments[Min(Window)].if_rising = Max(Window) + 1

\* C21 as stated: with a STEP-like segment inside the loop window every
\* segment of the window has if_rising = (loop_end + 1) mod n.
C21_AsStated ==
  (Wired /\ StepLike \cap Window # {}) =>
    \A i \in Window :
      segments[i].if_rising = (Max(Window) + 1) % request.num_segments

\* C22 (amended): without any STEP-like segment if_rising is 0 everywhere;
\* with STEP-like segments but none inside the loop window (or no loop), a
\* segment i outside the window has if_rising = (s + 1) mod n, s being the
\* first STEP-like segment at or after i, and when there is none, loop_start
\* if the window ends at the last segment and 0 otherwise.
C22_AfterNextStep ==
  Wired =>
    \A i \in Indices :
      /\ StepLike = {} => segments[i].if_rising = 0
      /\ (StepLike # {} /\ StepLike \cap Window = {} /\ i \notin Window) =>
           LET ahead == {s \in StepLike : s >= i}
           IN segments[i].if_rising =
                IF ahead # {} THEN (Min(ahead) + 1) % request.num_segments
                ELSE IF Window # {} /\ Max(Window) = request.num_segments - 1
                     THEN Min(Window) ELSE 0

\* A segment before a STEP-like one is wired to the segment after that one,
\* which is not STEP-like, with a step-free loop elsewhere.
C22_Witness ==
  /\ Wired /\ Window # {} /\ StepLike # {} /\ StepLike \cap Window = {}
  /\ \E i \in Indices \ Window :
       /\ i < Min(StepLike)
       /\ segments[i].if_rising = Min(StepLike) + 1
       /\ Min(StepLike) + 1 \in Indices \ StepLike

\* C22 as stated: with STEP-like segments but none inside the loop window,
\* if_rising of every segment is the index of a STEP-like segment; without
\* any STEP-like segment it is 0.
C22_AsStated ==
  Wired =>
    \A i \in Indices :
      /\ StepLike = {} => segments[i].if_rising = 0
      /\ (StepLike # {} /\ StepLike \cap Window = {}) =>
           segments[i].if_rising \in StepLike

\* --------------------------------------------------- the wiring, rendered
\* A generator configured once with two or three unipolar segments of any
\* types and loop flags, then rendered with any gate input.
LoopInit ==
  /\ GeneratorInit /\ HarnessInit /\ turing = NoRegister
  /\ rx = [state |-> ExtractorReset, call |-> NoCall]
  /\ aux = 0 /\ ~segments[0].advance_tm
  /\ \E n \in {2, 3} : \E r \in RequestsOf(n) :
       ~r.segment_configuration[0].bipolar /\ request = r

LoopNext ==
  \/ WiringNext
  \/ SetParameters(0..0, SlowPair)
  \/ Begin
  \/ \E level \in BOOLEAN : ProcessMultiSegment(level)

LoopSpec == LoopInit /\ [][LoopNext]_vars

\* A sample of the multi-segment engine is rendered by this step.
EngineSample == process_fn = "MultiSegment" /\ size > 0 /\ size' = size - 1

\* C23: Configure with n >= 2 gives segment i if_complete = loop_start when
\* i = loop_end and i + 1 otherwise (loop_start and loop_end the lowest and
\* highest segments carrying the loop bit); a sample without gate edge that
\* finds the generator inside the loop window leaves it inside, moving on
\* completion to the next segment and from loop_end to loop_start.
C23_CompletionLoops ==
  [][/\ (configures' = 1) =>
          \A i \in Indices :
            segments'[i].if_complete =
              IF Looping # {} /\ i = Max(Looping) THEN Min(Looping) ELSE i + 1
     /\ (EngineSample /\ ~flags'.rising /\ ~flags'.falling
           /\ active_segment \in Window) =>
          /\ active_segment' \in Window
          /\ active_segment' \in
               {active_segment,
                IF active_segment = Max(Window) THEN Min(Window)
                ELSE active_segment + 1}]_vars

\* Completion without gate edge took the generator from loop_end back to
\* loop_start, in a loop of more than one segment.
C23_Witness ==
  /\ Wired /\ emitted /\ ~flags.rising /\ ~flags.falling
  /\ Window # {} /\ Min(Window) < Max(Window)
  /\ probe.before = Max(Window) /\ active_segment = Min(Window)

\* FALLING is inhibited for the request: no loop, a loop that ends at the
\* last segment, or a STEP-like segment somewhere.
Inhibited ==
  \/ Looping = {}
  \/ Max(Looping) = request.num_segments - 1
  \/ StepLike # {}

\* C24: Configure with n >= 2 gives every segment 0..n-1 if_falling = -1
\* when there is no loop, the loop ends at the last segment or a STEP-like
\* segment exists, and loop_end + 1 otherwise; a sample with FALLING then
\* takes the generator from any of these segments to loop_end + 1, or
\* leaves it where it is when FALLING is inhibited.
C24_FallingReleases ==
  [][/\ (configures' = 1) =>
          \A i \in Indices :
            segments'[i].if_falling =
              IF Inhibited THEN -1 ELSE Max(Looping) + 1
     /\ (EngineSample /\ flags'.falling /\ active_segment \in Indices) =>
          active_segment' =
            IF Inhibited THEN active_segment ELSE Max(Looping) + 1]_vars

\* A FALLING met the generator before the loop window and took it to the
\* segment after the window.
C24_Witness ==
  /\ Wired /\ emitted /\ flags.falling /\ ~Inhibited
  /\ probe.before < Min(Window)
  /\ active_segment = Max(Window) + 1

\* The RAMP segments of the request.
Ramps == {i \in Indices : TypeOf(i) = "RAMP"}

\* C25: Configure with n >= 2 gives every RAMP segment i time = its primary,
\* retrig = ~bipolar, no phase override, and the end target: constant 0 for
\* the last segment; else the next segment's register_value when that is
\* TURING; else its primary when it is STEP or HOLD; else constant 1 when i
\* is the first RAMP; else i's own secondary, with the curve forced to the
\* constant 0.5.
C25_RampEnd ==
  Wired =>
    \A i \in Ramps :
      LET s == segments[i]
          last == i = request.num_segments - 1
      IN /\ s.time = PrimaryPtr(i)
         /\ s.retrig = ~request.segment_configuration[i].bipolar
         /\ s.phase = NullPtr
         /\ last => s.end = ZeroPtr
         /\ (~last /\ TypeOf(i + 1) = "TURING") => s.end = RegisterPtr(i + 1)
         /\ (~last /\ TypeOf(i + 1) \in {"STEP", "HOLD"}) =>
              s.end = PrimaryPtr(i + 1)
         /\ (~last /\ TypeOf(i + 1) = "RAMP" /\ i = Min(Ramps)) =>
              s.end = OnePtr
         /\ (~last /\ TypeOf(i + 1) = "RAMP" /\ i # Min(Ramps)) =>
              s.end = SecondaryPtr(i) /\ s.curve = HalfPtr

\* Three RAMPs in a row, bipolar: the first ends at 1, the second at its own
\* secondary with the curve 0.5, and neither retriggers.
C25_Witness ==
  /\ Wired /\ {0, 1, 2} \subseteq Ramps
  /\ segments[0].end = OnePtr /\ segments[0].curve = SecondaryPtr(0)
  /\ segments[1].end = SecondaryPtr(1) /\ segments[1].curve = HalfPtr
  /\ ~segments[0].retrig /\ ~segments[1].retrig

\* The loop window of the request ends at its last segment.
LoopEndsLast == Looping # {} /\ Max(Looping) = request.num_segments - 1

\* C26: a sample that finds the generator in the sentinel n leaves it there
\* on a FALLING; without gate edge it takes it to segment 0 exactly when the
\* phase completes and the loop window ends at the last segment, and leaves
\* it in the sentinel otherwise; only a RISING or that completion leads out
\* of the sentinel, and only to segment 0.
C26_Sentinel ==
  [][(EngineSample /\ configures = 1
        /\ active_segment = request.num_segments) =>
       LET n == request.num_segments
           can == \E freq \in ActiveFrequencies : phase + freq >= PhaseOne
           must == \A freq \in ActiveFrequencies : phase + freq >= PhaseOne
       IN /\ active_segment' \in {n, 0}
          /\ flags'.falling => active_segment' = n
          /\ (~flags'.rising /\ ~flags'.falling) =>
               /\ (LoopEndsLast /\ must) => active_segment' = 0
               /\ (~LoopEndsLast \/ ~can) => active_segment' = n
          /\ (~flags'.rising /\ ~LoopEndsLast) => active_segment' = n]_vars

\* A looped envelope left the sentinel for segment 0 while the gate has
\* never been high.
C26_Witness ==
  /\ Wired /\ emitted /\ LoopEndsLast /\ ~gate /\ ~flags.falling
  /\ probe.before = request.num_segments /\ active_segment = 0

\* The registers one update of segment i may leave, with the steps and the
\* probability of segment i's own parameters.
OwnUpdates(i) ==
  {AdvanceRegister(segments[i].shift_register, copied_bit, flip) :
     copied_bit \in CopiedBit(segments[i].shift_register,
                              TuringSteps(parameters[i].secondary)),
     flip \in Coin(parameters[i].primary)}

\* C27: a sample of the multi-segment engine changes the Turing register of
\* a segment only if that segment is the active one, has advance_tm set and
\* a transition is taken (the phase restarts at 0); the new register is one
\* update away from the old one, drawn with the segment's own primary and
\* secondary; every other field of every record is left alone; and when an
\* update was made and the destination's start refers to a register, start_
\* is that register's value after the update.
C27_TuringOnTransition ==
  [][(EngineSample /\ active_segment < kMaxNumSegments) =>
       /\ \A i \in DOMAIN segments :
            \/ segments'[i] = segments[i]
            \/ /\ i = active_segment /\ segments[i].advance_tm
               /\ phase' = 0
               /\ probe'.updates = probe.updates + 1
               /\ segments'[i].shift_register \in OwnUpdates(i)
               /\ segments'[i] =
                    [segments[i] EXCEPT
                       !.shift_register = segments'[i].shift_register,
                       !.register_value =
                         RegisterValue(segments'[i].shift_register,
                                       segments[i].bipolar)]
       /\ (probe'.updates = probe.updates + 1
             /\ segments[active_segment'].start[1] = "register") =>
            start' = segments'[segments[active_segment'].start[2]].register_value
       /\ probe'.updates <= probe.updates + 1]_vars

\* A TURING segment looping on itself was updated by its own completion and
\* restarted from the new register value, which differs from the one before.
C27_Witness ==
  /\ Wired /\ emitted /\ probe.updates >= 1
  /\ active_segment \in Indices /\ probe.before = active_segment
  /\ TypeOf(active_segment) = "TURING"
  /\ ~flags.rising /\ ~flags.falling
  /\ segments[active_segment].shift_register \notin InitRegisters
  /\ start = segments[active_segment].register_value
  /\ start # ParamOne \div 2 /\ phase = 0

\* ------------------------------------------- one update, any probability
\* The probabilities of an update, in 1/ParamOne: below 0, 0, inside (0, 1),
\* 1 and above 1.
Probabilities == (0 - 1)..(ParamOne + 1)

\* A register, a step count and a probability are chosen.
MutateInit ==
  /\ GeneratorInit /\ HarnessInit /\ request = NoRequest
  /\ rx = [state |-> ExtractorReset, call |-> NoCall]
  /\ \E sr \in TuringRegisters, steps \in 1..kRegisterBits, prob \in Probabilities :
       turing = [sr |-> sr, steps |-> steps, initial |-> sr, count |-> 0,
                 prob |-> prob, flip |-> 0]

\* advance_tm(steps, prob, shift_register, register_value, bipolar), once;
\* the outcome of the random comparison is kept in `flip`.
MutateStep ==
  /\ turing.count = 0
  /\ \E copied_bit \in CopiedBit(turing.sr, turing.steps), flip \in Coin(turing.prob) :
       turing' = [turing EXCEPT !.sr = AdvanceRegister(turing.sr, copied_bit, flip),
                        !.count = 1, !.flip = flip]
  /\ UNCHANGED <<graph_vars, segments, parameters, runtime_vars, block_vars,
                 input_vars, out, emitted, last_n, configures, probe, rx, request>>

MutateNext == MutateStep

MutateSpec == MutateInit /\ [][MutateNext]_vars

\* Bit k of a register.
BitOf(sr, k) == (sr \div Pow2(k)) % 2

\* C28: one update with step count s in 1..16 leaves (sr >> 1) | (m << 15),
\* a 16-bit value, m being bit 16 - s of sr XOR the coin flip; the flip is 0
\* when the probability is below 0.001 and 1 when it is above 0.999.
C28_OneUpdate ==
  turing.count = 1 =>
    LET m == (BitOf(turing.initial, kRegisterBits - turing.steps) + turing.flip) % 2
    IN /\ turing.sr = (turing.initial \div 2) + m * Pow2(kRegisterBits - 1)
       /\ turing.sr \in 0..(Pow2(kRegisterBits) - 1)
       /\ turing.prob * 1000 < ParamOne => turing.flip = 0
       /\ turing.prob * 1000 > 999 * ParamOne => turing.flip = 1

\* An update with probability 1 and 5 steps inverts bit 11 of the register
\* into bit 15.
C28_Witness ==
  /\ turing.count = 1 /\ turing.steps = 5 /\ turing.prob = ParamOne
  /\ turing.initial = 46019 /\ turing.sr = 23009 + 32768

\* ------------------------------------------ RampExtractor::PredictNextPeriod
\* kMaxPatternPeriod (equal to kHistorySize), scaled down with it.
kMaxPatternPeriod == 2
\* Predicted periods are kept in 1/PredOne sample, prediction errors in
\* 1/ErrOne squared sample.
PredOne == 8
ErrOne == 64
\* Longest pulse and largest number of pulses of a behaviour of the predictor.
MaxPeriod == 3
MaxPulses == 4

\* The 50.0f the errors of the pattern strategies start from, scaled with
\* the square of the sample rate: the smallest error above 0.
kInitialError == 1

Strategies == 0..kMaxPatternPeriod

\* SLOPE(out, in, positive, negative), the coefficients in tenths.
SLOPE(output, input, positive, negative) ==
  LET error == input - output
  IN output + Trunc((IF error > 0 THEN positive ELSE negative) * error, 10)

\* (not the code) Strategy i reads the pulse before the one it should.
PatternPulseBefore(current_pulse, i) ==
  (current_pulse + kHistorySize * (1 + kMaxPatternPeriod) - i) % kHistorySize

\* t % kHistorySize for t = current_pulse_ + 1 + kHistorySize - i.
PatternPulse(current_pulse, i) ==
  (current_pulse + 1 + kHistorySize * (1 + kMaxPatternPeriod) - i) % kHistorySize

\* best_pattern_period after iterations 0..i of the loop, the errors of the
\* strategies up to i being updated by then.
RECURSIVE BestPattern(_, _)
BestPattern(prediction_error, i) ==
  IF i = 0 THEN 0
  ELSE LET best == BestPattern(prediction_error, i - 1)
       IN IF prediction_error[i] < prediction_error[best] THEN i ELSE best

\* PredictNextPeriod() on a history of total durations: the arrays it
\* leaves, the strategy it picks and the period it returns.
PredictNextPeriod(history, current_pulse, predicted_period, prediction_error) ==
  LET last_period == history[current_pulse] * PredOne
      error_sq(i) == ((predicted_period[i] - last_period)
                        * (predicted_period[i] - last_period) * ErrOne)
                       \div (PredOne * PredOne)
      errors == [i \in Strategies |-> SLOPE(prediction_error[i], error_sq(i), 7, 2)]
      periods == [i \in Strategies |->
                    IF i = 0
                    THEN ONE_POLE(predicted_period[0], last_period, CoefOne \div 2)
                    ELSE history[PatternPulse(current_pulse, i)] * PredOne]
      best == BestPattern(errors, kMaxPatternPeriod)
  IN [predicted_period |-> periods, prediction_error |-> errors,
      best |-> best, returned |-> periods[best]]

\* The predictor after Reset, with what the model keeps of its calls: the
\* history and the slot as PredictNextPeriod read them, and the pulses that
\* precede the upcoming one (recorded ones, then the one just ended).
PredictorReset ==
  [history |-> [k \in 0..(kHistorySize - 1) |->
                  IF k = 0 THEN 0 ELSE kSampleRate \div 2],
   current_pulse |-> 0,
   predicted_period |-> [i \in Strategies |-> (kSampleRate * PredOne) \div 2],
   prediction_error |-> [i \in Strategies |-> IF i = 0 THEN 0 ELSE kInitialError],
   best |-> 0, returned |-> 0, calls |-> 0,
   read |-> [k \in 0..(kHistorySize - 1) |-> 0], slot |-> 0,
   recorded |-> <<>>, seen |-> <<>>]

PredictInit ==
  /\ GeneratorInit /\ HarnessInit /\ turing = NoRegister
  /\ request = NoRequest
  /\ rx = PredictorReset

\* The RISING edge that ends a pulse of total duration d, as far as the
\* predictor goes: a recorded pulse moves to the next slot of the ring, a
\* pulse that is not recorded leaves the slot where it is.
PredictPulse(d, record_pulse) ==
  /\ rx.calls < MaxPulses
  /\ LET history == [rx.history EXCEPT ![rx.current_pulse] = d]
         r == PredictNextPeriod(history, rx.current_pulse,
                                rx.predicted_period, rx.prediction_error)
         next == IF record_pulse THEN NextPulse(rx.current_pulse)
                 ELSE rx.current_pulse
     IN rx' = [history |-> [history EXCEPT ![next] = 0],
               current_pulse |-> next,
               predicted_period |-> r.predicted_period,
               prediction_error |-> r.prediction_error,
               best |-> r.best, returned |-> r.returned,
               calls |-> rx.calls + 1,
               read |-> history, slot |-> rx.current_pulse,
               recorded |-> IF record_pulse THEN Append(rx.recorded, d)
                            ELSE rx.recorded,
               seen |-> Append(rx.recorded, d)]
  /\ UNCHANGED <<graph_vars, segments, parameters, runtime_vars, block_vars,
                 input_vars, out, emitted, last_n, configures, probe, turing,
                 request>>

PredictRecorded == \E d \in 1..MaxPeriod : PredictPulse(d, TRUE)
PredictLost == \E d \in 1..MaxPeriod : PredictPulse(d, FALSE)

PredictNext == PredictRecorded \/ PredictLost

PredictSpec == PredictInit /\ [][PredictNext]_vars

\* C29: PredictNextPeriod returns predicted_period[b], b being the lowest
\* strategy index whose prediction_error, after this call's update of every
\* error, is smallest; for i >= 1 predicted_period[i] is the total duration
\* held i slots before the upcoming pulse's slot of the ring, which is the
\* pulse that ended i pulses before the upcoming one.
C29_BestStrategy ==
  rx.calls > 0 =>
    /\ rx.returned = rx.predicted_period[rx.best]
    /\ \A j \in Strategies :
         /\ rx.prediction_error[rx.best] <= rx.prediction_error[j]
         /\ j < rx.best => rx.prediction_error[rx.best] < rx.prediction_error[j]
    /\ \A i \in 1..kMaxPatternPeriod :
         /\ \E k \in 0..(kHistorySize - 1) :
              /\ (k + i) % kHistorySize = (rx.slot + 1) % kHistorySize
              /\ rx.predicted_period[i] = rx.read[k] * PredOne
         /\ i <= Len(rx.seen) =>
              rx.predicted_period[i] = rx.seen[Len(rx.seen) - i + 1] * PredOne

\* The strategy repeating the pulse before the last one wins and returns it.
C29_Witness ==
  /\ rx.calls > 2 /\ rx.best = 2
  /\ rx.returned = rx.seen[Len(rx.seen) - 1] * PredOne
  /\ rx.returned # rx.seen[Len(rx.seen)] * PredOne

\* C30 (as amended): reset_interval is 5 * SR after Init; a RISING edge that
\* records a pulse in the low-rate path leaves max(4 / target_frequency,
\* 3 * SR) for the target_frequency it sets (longer than any pulse when that
\* frequency is 0); a tap-loss reset leaves 4 times the total duration of
\* the pulse that just ended; any other sample leaves it as it was.
C30_ResetInterval ==
  /\ rx.state.reset_interval = 5 * kSampleRate
  /\ [][(rx.call.size > 0 /\ rx'.call.size = rx.call.size - 1) =>
         LET edge == rx'.call.edge
             target == rx'.state.target_frequency
             interval == rx'.state.reset_interval
         IN /\ edge \in {"reset", "keep"} =>
                 IF target > 0
                 THEN interval = Max({(4 * PhaseOne) \div target, 3 * kSampleRate})
                 ELSE interval > MaxDuration
            /\ edge = "lost" => interval = 4 * rx.state.total_duration
            /\ edge \in {"none", "audio"} => interval = rx.state.reset_interval]_vars

\* A first pulse of 5 * SR samples is not recorded and leaves 20 * SR,
\* the predictor giving one cycle per sample.
C30_Witness ==
  /\ rx.call.edge = "lost" /\ rx.call.resets = 1
  /\ rx.state.reset_interval = 20 * kSampleRate
  /\ rx.state.target_frequency = PhaseOne

\* C30 as stated: after a recorded low-rate edge and after a tap-loss reset
\* alike, reset_interval is max(4 / target_frequency, 3 * SR).
C30_AsStated ==
  (rx.call.edge \in {"lost", "reset", "keep"} /\ rx.state.target_frequency > 0) =>
    rx.state.reset_interval =
      Max({(4 * PhaseOne) \div rx.state.target_frequency, 3 * kSampleRate})

\* ------------------------------------------- Configure and earlier calls
\* The graph Configure(has_trigger, cfg, n) leaves in a generator that has
\* received no earlier call (its unset flags reading false).
FreshGraph(cfg, n) ==
  LET fresh == [i \in DOMAIN segments |-> InitSegment(FALSE, 0, 0)]
      wired == ConfigureSegments(fresh, cfg, n)
  IN [i \in 0..n |-> Graph(wired[i])]

\* C31 as stated: the records 0..n that Configure(has_trigger, cfg, n)
\* leaves are the same whatever calls came before, the sentinel's retrig,
\* advance_tm, bipolar and phase override included.
C31_AsStated ==
  [][\A n \in 2..MaxSegs :
       \A cfg \in [0..(n - 1) -> Configurations({"RAMP"}, BOOLEAN)] :
         ConfigureMultiSegment(cfg, n) =>
           [i \in 0..n |-> Graph(segments'[i])] = FreshGraph(cfg, n)]_vars

\* The next-state indices of the segments 0..n-1 of the request are records
\* of the configuration.
ValidIndices ==
  LET n == request.num_segments
  IN \A i \in 0..(n - 1) :
       /\ segments[i].if_rising \in 0..(n - 1)
       /\ segments[i].if_falling \in {-1} \cup 1..(n - 1)
       /\ segments[i].if_complete \in 0..n

\* C32: after Configure with n >= 2 every segment 0..n-1 has if_rising in
\* [0, n-1], if_falling -1 or in [1, n-1] and if_complete in [0, n], and the
\* multi-segment engine is always in a record of [0, n].
C32_ValidIndices ==
  Wired => /\ ValidIndices
           /\ active_segment \in 0..request.num_segments

\* A RISING flag has taken the engine from the last segment, a STEP, round
\* to segment 0.
C32_Witness ==
  /\ Wired /\ emitted /\ flags.rising
  /\ probe.before = request.num_segments - 1
  /\ TypeOf(probe.before) = "STEP"
  /\ segments[probe.before].if_rising = 0 /\ active_segment = 0

\* ------------------------------------------- rates in and out of range
\* One generator configured once with two RAMP or HOLD segments, whose
\* parameters are set in and above the nominal range between blocks.
PendingNext ==
  \/ /\ configures = 0
     /\ ConfigureMulti(Configurations({"RAMP", "HOLD"}, {FALSE}), 2, 2)
  \/ SetParameters(0..1, ParamPairs)
  \/ Begin
  \/ \E level \in BOOLEAN : ProcessMultiSegment(level)

PendingSpec == ZeroedInit /\ [][PendingNext]_vars

\* C33 as stated: a timed segment that completes on a sample whose FALLING
\* flag is inhibited takes no transition and keeps phase = 1; a segment
\* whose completion is pending (phase = 1) takes its if_complete transition
\* on the first sample that carries neither a RISING with retrig nor a
\* FALLING flag.
C33_AsStated ==
  [][(EngineSample /\ active_segment < num_segments
        /\ segments[active_segment].time # NullPtr) =>
       LET segment == segments[active_segment]
       IN /\ (/\ flags'.falling /\ segment.if_falling = -1
               /\ \A freq \in ActiveFrequencies : phase + freq >= PhaseOne) =>
                 (active_segment' = active_segment /\ phase' = PhaseOne)
          /\ (/\ phase = PhaseOne
               /\ ~(flags'.rising /\ segment.retrig) /\ ~flags'.falling) =>
                 (active_segment' = segment.if_complete /\ phase' = 0)]_vars

\* ---------------------------------------------------------- step sequencer
\* The requests of a step sequencer: 2 or 3 STEP segments without loop bit.
SequencerInit ==
  /\ GeneratorInit /\ HarnessInit /\ turing = NoRegister
  /\ rx = [state |-> ExtractorReset, call |-> NoCall]
  /\ aux = 0 /\ ~segments[0].advance_tm
  /\ \E n \in 2..3 : \E r \in RequestsOf(n) :
       /\ \A i \in 0..(n - 1) : /\ r.segment_configuration[i].type = "STEP"
                                /\ ~r.segment_configuration[i].loop
       /\ request = r

\* The sequencer of the request is the configuration in force.
Sequenced ==
  /\ process_fn = "MultiSegment" /\ num_segments = request.num_segments
  /\ segments[0].time = NullPtr

\* A generator that may first be configured as an envelope of three RAMP
\* segments, then as the sequencer, and is rendered with any gate input.
SequencerNext ==
  \/ /\ configures = 0
     /\ ConfigureMulti(Configurations({"RAMP"}, BOOLEAN), 3, 3)
     /\ request' = request
  \/ /\ ~Sequenced /\ size = 0
     /\ ConfigureMultiSegment(request.segment_configuration, request.num_segments)
  \/ Begin
  \/ \E level \in BOOLEAN : ProcessMultiSegment(level)

SequencerSpec == SequencerInit /\ [][SequencerNext]_vars

\* C34 as stated: in a sequencer of n STEP segments without loop bit, a
\* sample without RISING leaves the active segment where it is, a RISING
\* found in the sentinel activates segment 0 and a RISING found in segment i
\* activates segment (i + 1) mod n.
C34_AsStated ==
  (Sequenced /\ emitted) =>
    LET n == num_segments
        before == probe.before
    IN active_segment =
         IF ~flags.rising THEN before
         ELSE IF before = n THEN 0 ELSE (before + 1) % n

\* ------------------------------------------------------- one-shot envelope
\* The requests of a one-shot envelope: 2 or 3 RAMP and HOLD segments without
\* loop bit.
OneShotInit ==
  /\ GeneratorInit /\ HarnessInit /\ turing = NoRegister
  /\ rx = [state |-> ExtractorReset, call |-> NoCall]
  /\ aux = 0 /\ ~segments[0].advance_tm
  /\ \E n \in 2..3 : \E r \in RequestsOf(n) :
       /\ \A i \in 0..(n - 1) :
            /\ r.segment_configuration[i].type \in {"RAMP", "HOLD"}
            /\ ~r.segment_configuration[i].loop
       /\ request = r

\* The rates of the envelope: the fastest and the slowest of the table.
OneShotPairs == {<<0, 0>>, <<ParamOne, ParamOne>>}

OneShotNext ==
  \/ WiringNext
  \/ SetParameters(0..1, OneShotPairs)
  \/ Begin
  \/ \E level \in BOOLEAN : ProcessMultiSegment(level)

OneShotSpec == OneShotInit /\ [][OneShotNext]_vars

\* A sample without RISING flag at which the phase moves or a transition is
\* taken.
Advance ==
  \E level \in BOOLEAN :
    /\ level => gate
    /\ ProcessMultiSegment(level)
    /\ (phase' # phase \/ active_segment' # active_segment)

\* The caller configures, then renders block after block for ever; an
\* increment of the table that is below the resolution of the model (it
\* shows as 0 or 1 unit) is strictly positive, so it moves the phase at one
\* sample out of finitely many.
OneShotLive ==
  /\ OneShotSpec
  /\ WF_vars(WiringNext)
  /\ WF_vars(Begin)
  /\ WF_vars(\E level \in BOOLEAN : ProcessMultiSegment(level))
  /\ SF_vars(Advance)

\* C35: a one-shot envelope (RAMP and HOLD segments, no loop bit, every
\* rate inside the table) that has received a RISING edge and receives no
\* further one eventually is in the sentinel n with phase = 1 and stays so.
C35_OneShotEnds ==
  (<>(Wired /\ emitted /\ flags.rising) /\ <>[](~flags.rising)) =>
    <>[](active_segment = request.num_segments /\ phase = PhaseOne)

\* The envelope has gone through its last segment into the sentinel and the
\* sentinel's phase has reached 1, the gate having risen once.
C35_Witness ==
  /\ Wired /\ emitted /\ gate /\ ~flags.rising
  /\ probe.before = request.num_segments
  /\ active_segment = request.num_segments /\ phase = PhaseOne
  /\ value # 0

\* ------------------------------------------------------ block partitioning
\* Largest block handed to RampExtractor::Process when the partition of the
\* stream is under study, and the longest pulse of these streams.
MaxRampBlock == 5
MaxRampPulse == 4

\* The extractor with the multiplier ratio, fed the same streams in single
\* samples and in blocks of up to MaxRampBlock samples.
PartitionInit ==
  /\ GeneratorInit /\ HarnessInit /\ turing = NoRegister
  /\ request = NoRequest
  /\ aux = 0 /\ ~segments[0].advance_tm
  /\ \E ratio \in {r \in Ratios : r.ratio > RatioOne} :
       rx = [state |-> ExtractorReset, call |-> [NoCall EXCEPT !.ratio = ratio]]

PartitionNext ==
  \/ \E n \in {1, MaxRampBlock} : ExtractorBegin(n)
  \/ \E level \in BOOLEAN :
       /\ rx.state.total_duration < MaxRampPulse \/ (level /\ ~rx.call.gate)
       /\ ExtractorSample(level)

PartitionSpec == PartitionInit /\ [][PartitionNext]_vars

\* C36 as stated: the output and the state do not depend on how the stream
\* is cut into blocks.  ar_threshold is the only value of a call that is
\* taken from the state before the loop and not written back, so a sample
\* is processed as a call of one sample processes it exactly when the
\* regime decided at a recorded RISING is the one the hysteresis threshold
\* current at that pulse gives.
C36_AsStated ==
  [][(RisingSample /\ RecordPulse(rx.state.total_duration, rx.state.reset_interval)) =>
       (rx'.state.audio_rate <=>
          /\ WithinAudioRate(rx.state.total_duration, rx.state.audio_hysteresis,
                             rx.call.ratio.ratio)
          /\ rx.state.total_duration > 0)]_vars

\* ------------------------------------- the accesses of RampExtractor::Process
\* Largest block whose reads and writes are followed one by one.
MaxAccessBlock == 4

\* (not the code) The loop condition reads the next flag before it tests the
\* count.
ReadsAlways(left) == TRUE

\* (--size) && !((flags = *gate_flags++) & GATE_FLAG_RISING): the next flag
\* is read only when samples are left.
ReadsNext(left) == left # 0

\* What *gate_flags++ gives at index i of an array of n flags (the RISING
\* bit of the flag; anything beyond the array).
FlagAt(gate_flags, i) ==
  IF i \in DOMAIN gate_flags THEN {gate_flags[i]} ELSE BOOLEAN

\* A call Process(ratio, gate_flags, ramp, n) about to be made: any block
\* size, any RISING bits in the flags, either regime.
AccessInit ==
  /\ GeneratorInit /\ HarnessInit /\ turing = NoRegister
  /\ request = NoRequest
  /\ \E n \in 1..MaxAccessBlock :
     \E gate_flags \in [0..(n - 1) -> BOOLEAN] :
     \E audio_rate \in BOOLEAN :
       rx = [pc |-> "call", n |-> n, gate_flags |-> gate_flags,
             size |-> n, next |-> 0, rising |-> FALSE,
             audio_rate |-> audio_rate,
             reads |-> <<>>, writes |-> <<>>, edges |-> 0, switches |-> 0]

AccessStep(r) ==
  /\ rx' = r
  /\ UNCHANGED <<graph_vars, segments, parameters, runtime_vars, block_vars,
                 input_vars, out, emitted, last_n, configures, probe, turing,
                 request>>

\* GateFlags flags = *gate_flags++; before the loop.
AccessCall ==
  /\ rx.pc = "call"
  /\ \E f \in FlagAt(rx.gate_flags, rx.next) :
       AccessStep([rx EXCEPT !.pc = "while", !.rising = f,
                             !.reads = Append(rx.reads, rx.next),
                             !.next = rx.next + 1])

\* while (size) { if (flags & GATE_FLAG_RISING) { ... } : the RISING branch
\* may leave either regime; the loop of that regime is entered.
AccessWhile ==
  /\ rx.pc = "while"
  /\ IF rx.size = 0
     THEN AccessStep([rx EXCEPT !.pc = "done"])
     ELSE IF rx.rising
     THEN \E audio_rate \in BOOLEAN :
            AccessStep([rx EXCEPT !.pc = "do", !.audio_rate = audio_rate,
                                  !.edges = rx.edges + 1,
                                  !.switches =
                                    IF audio_rate # rx.audio_rate
                                    THEN rx.switches + 1 ELSE rx.switches])
     ELSE AccessStep([rx EXCEPT !.pc = "do"])

\* do { ... *ramp++ = ...; } while ((--size) && !((flags = *gate_flags++)
\* & GATE_FLAG_RISING)); one iteration, the same in both regimes.
AccessDo ==
  /\ rx.pc = "do"
  /\ LET left == rx.size - 1
         written == [rx EXCEPT !.size = left,
                               !.writes = Append(rx.writes, Len(rx.writes))]
     IN IF ReadsNext(left)
        THEN \E f \in FlagAt(rx.gate_flags, rx.next) :
               AccessStep([written EXCEPT
                             !.rising = f,
                             !.reads = Append(rx.reads, rx.next),
                             !.next = rx.next + 1,
                             !.pc = IF left # 0 /\ ~f THEN "do" ELSE "while"])
        ELSE AccessStep([written EXCEPT !.pc = "while"])

AccessNext == AccessCall \/ AccessWhile \/ AccessDo

AccessSpec == AccessInit /\ [][AccessNext]_vars

\* Steps the call may still take: one for the call, two per sample left (the
\* iteration and the test of the outer loop) and the last test.
AccessMeasure ==
  IF rx.pc = "done" THEN 0
  ELSE 2 * rx.size + (IF rx.pc = "call" THEN 3 ELSE IF rx.pc = "do" THEN 1 ELSE 2)

\* C37: a call of RampExtractor::Process on a block of N >= 1 samples
\* terminates (every step of its loops brings it nearer to the end, and it
\* is never stuck before the end), reads gate_flags[0], ..., gate_flags[N-1]
\* in this order, each once and nothing beyond, and writes ramp[0], ...,
\* ramp[N-1] in this order, each once, whatever the RISING flags and the
\* regime switches of the block.
C37_Accesses ==
  /\ [](/\ rx.reads = [i \in 1..Len(rx.reads) |-> i - 1]
        /\ rx.writes = [i \in 1..Len(rx.writes) |-> i - 1]
        /\ Len(rx.reads) <= rx.n
        /\ Len(rx.writes) = rx.n - rx.size
        /\ rx.pc = "done" => (Len(rx.reads) = rx.n /\ Len(rx.writes) = rx.n)
        /\ rx.pc # "done" => ENABLED AccessNext)
  /\ [][AccessMeasure' < AccessMeasure]_vars

\* A call on a block of 4 samples has returned after two RISING flags and
\* two regime switches.
C37_Witness ==
  /\ rx.pc = "done" /\ rx.n = MaxAccessBlock
  /\ rx.edges >= 2 /\ rx.switches >= 2
  /\ Len(rx.writes) = MaxAccessBlock

\* ------------------------------------------------ the search for the next STEP
\* (not the code) The search is not stopped at the end of the array.
NotPastEnd(next_step, n) == FALSE

\* if (next_step >= num_segments) { next_step = num_segments - 1; break; }
PastEnd(next_step, n) == next_step >= n

\* Iterations after which the search is given up as endless.
SearchFuel(n) == 2 * n + 2

\* The while loop of FindNextStep iteration by iteration, with the indices
\* of segment_configuration it reads: `found` when is_step ends the loop,
\* `clamped` when the break does, `outside` when an entry outside the array
\* is read (the search is not followed further), none of them when the
\* fuel runs out.
RECURSIVE SearchNextStep(_, _, _, _, _)
SearchNextStep(cfg, n, next_step, follow_loop, reads) ==
  LET r == Append(reads, next_step)
      end == [next_step |-> next_step, reads |-> r, found |-> FALSE,
              clamped |-> FALSE, outside |-> FALSE]
  IN IF Len(r) > SearchFuel(n) THEN end
     ELSE IF next_step \notin 0..(n - 1) THEN [end EXCEPT !.outside = TRUE]
     ELSE IF is_step(cfg[next_step]) THEN [end EXCEPT !.found = TRUE]
     ELSE LET inc == next_step + 1
              wrap == follow_loop /\ inc = LoopEnd(cfg, n) + 1
              ns == IF wrap THEN LoopStart(cfg, n) ELSE inc
              fl == IF wrap THEN FALSE ELSE follow_loop
          IN IF PastEnd(ns, n)
             THEN [end EXCEPT !.next_step = n - 1, !.clamped = TRUE]
             ELSE SearchNextStep(cfg, n, ns, fl, r)

\* The segments for which Configure runs the search.
Searched ==
  {i \in Indices :
     /\ HasStepSegments(request.segment_configuration, request.num_segments)
     /\ ~(i \in Window /\ Window \cap StepLike = {})}

\* The search Configure runs for segment i.
SearchOf(i) ==
  SearchNextStep(request.segment_configuration, request.num_segments, i,
                 LoopEnd(request.segment_configuration, request.num_segments) # -1,
                 <<>>)

\* The search went from loop_end back to loop_start.
Wrapped(reads) == \E k \in 1..(Len(reads) - 1) : reads[k + 1] <= reads[k]

\* C38: for the configurations of 2 to MaxWiring segments, the search for
\* the next STEP-like segment that Configure runs for a segment ends (by
\* finding one or by the break at the end of the array, after at most 2 n
\* reads), reads only entries 0..n-1 of the configuration, and its result
\* is the index Configure uses for if_rising.
C38_SearchEnds ==
  Wired =>
    \A i \in Searched :
      LET r == SearchOf(i)
          n == request.num_segments
          cfg == request.segment_configuration
      IN /\ r.found \/ r.clamped
         /\ ~r.outside
         /\ Len(r.reads) <= 2 * n
         /\ \A k \in 1..Len(r.reads) : r.reads[k] \in 0..(n - 1)
         /\ r.next_step = FindNextStep(cfg, n, i, LoopEnd(cfg, n) # -1)
         /\ segments[i].if_rising =
              (IF r.next_step = LoopEnd(cfg, n) THEN LoopStart(cfg, n)
               ELSE (r.next_step + 1) % n)

\* Configure has run one search that wrapped from loop_end + 1 to loop_start
\* and found a STEP there, and one that met no STEP-like segment up to the
\* end of the array.
C38_Witness ==
  /\ Wired
  /\ \E i \in Searched :
       SearchOf(i).found /\ Wrapped(SearchOf(i).reads) /\ i \in Window
  /\ \E j \in Searched : SearchOf(j).clamped /\ ~Wrapped(SearchOf(j).reads)

\* ------------------------------------------------------------- Quantizer
\* Pitches are int16_t scaled down to PitchBits bits.
PitchBits == 6
PitchHalf == 2 ^ (PitchBits - 1)
Pitches == (-PitchHalf)..(PitchHalf - 1)

\* The value an int16_t keeps of x.
Int16(x) == ((x + PitchHalf) % (2 * PitchHalf)) - PitchHalf

\* abs()
Abs(x) == IF x < 0 THEN -x ELSE x

\* abs(pitch - (octave + 1) * span_ - notes_[0]) < best_distance
UpperNearer(distance, best_distance) == distance < best_distance

\* Quantizer::Init
QuantizerReset ==
  [enabled |-> TRUE, codeword |-> 0, previous_boundary |-> 0, next_boundary |-> 0]

\* The scales the quantizer is configured with (span_, notes_[0..num_notes_
\* - 1] in ascending order inside one span): one note, two notes from 0,
\* notes that start above 0, every step.
Scales ==
  {[span |-> 5, notes |-> <<0>>], [span |-> 5, notes |-> <<0, 2>>],
   [span |-> 5, notes |-> <<1, 4>>], [span |-> 5, notes |-> <<0, 2, 3>>],
   [span |-> 4, notes |-> <<0, 1, 2, 3>>]}

\* Quantizer::Process(pitch, root) on the quantizer q with the scale sc: the
\* state it leaves and the value it returns.
QuantizerProcess(q, sc, pitch, root) ==
  IF ~q.enabled THEN [state |-> q, result |-> pitch]
  ELSE
    LET p == Int16(pitch - root)
        num_notes == Len(sc.notes)
        notes_(i) == sc.notes[i + 1]
    IN IF p >= q.previous_boundary /\ p <= q.next_boundary
       THEN [state |-> q, result |-> Int16(q.codeword + root)]
       ELSE
         LET octave0 == Int16(Trunc(p, sc.span) - (IF p < 0 THEN 1 ELSE 0))
             rel_pitch == Int16(p - sc.span * octave0)
             distance(i) == Int16(Abs(rel_pitch - notes_(i)))
             \* the first index of the smallest distance under 16384
             near == {i \in 0..(num_notes - 1) : distance(i) < PitchHalf \div 2}
             q0 == IF near = {} THEN -1
                   ELSE Min({i \in near : \A j \in near : distance(i) <= distance(j)})
             best_distance == IF q0 = -1 THEN PitchHalf \div 2 ELSE distance(q0)
             up == UpperNearer(Abs(p - (octave0 + 1) * sc.span - notes_(0)),
                               best_distance)
             down == Abs(p - (octave0 - 1) * sc.span - notes_(num_notes - 1))
                       <= best_distance
             octave == IF up THEN Int16(octave0 + 1)
                       ELSE IF down THEN Int16(octave0 - 1) ELSE octave0
             qq == IF up THEN 0 ELSE IF down THEN num_notes - 1 ELSE q0
             codeword == Int16(notes_(qq) + octave * sc.span)
             previous == IF qq = 0
                         THEN Int16(notes_(num_notes - 1) + (octave - 1) * sc.span)
                         ELSE Int16(notes_(qq - 1) + octave * sc.span)
             next == IF qq = num_notes - 1
                     THEN Int16(notes_(0) + (octave + 1) * sc.span)
                     ELSE Int16(notes_(qq + 1) + octave * sc.span)
         IN [state |-> [q EXCEPT
                          !.codeword = codeword,
                          !.previous_boundary =
                            Int16((9 * previous + 7 * codeword) \div 16),
                          !.next_boundary =
                            Int16((9 * next + 7 * codeword) \div 16)],
             result |-> Int16(codeword + root)]

\* Roots the quantizer is called with.
Roots == {0, 3, -7}

\* The quantizer after Init and a Configure that stores a scale and enables
\* or disables it.
QuantizerInit ==
  /\ GeneratorInit /\ HarnessInit /\ turing = NoRegister
  /\ request = NoRequest
  /\ \E sc \in Scales : \E enabled \in BOOLEAN :
       rx = [state |-> [QuantizerReset EXCEPT !.enabled = enabled],
             scale |-> sc, calls |-> 0,
             call |-> [pitch |-> 0, root |-> 0, result |-> 0,
                       before |-> QuantizerReset]]

\* Calls of Process followed in a behaviour.
MaxQuantizerCalls == 2

QuantizerStep(pitch, root) ==
  /\ rx.calls < MaxQuantizerCalls
  /\ LET r == QuantizerProcess(rx.state, rx.scale, pitch, root)
     IN rx' = [rx EXCEPT !.state = r.state, !.calls = rx.calls + 1,
                         !.call = [pitch |-> pitch, root |-> root,
                                   result |-> r.result, before |-> rx.state]]
  /\ UNCHANGED <<graph_vars, segments, parameters, runtime_vars, block_vars,
                 input_vars, out, emitted, last_n, configures, probe, turing,
                 request>>

QuantizerNext == \E pitch \in Pitches : \E root \in Roots : QuantizerStep(pitch, root)

QuantizerSpec == QuantizerInit /\ [][QuantizerNext]_vars

\* The notes of the scale over all octaves (as far as pitches go).
ScaleNotes ==
  {rx.scale.notes[i] + o * rx.scale.span :
     i \in 1..Len(rx.scale.notes), o \in (-PitchHalf \div 2)..(PitchHalf \div 2)}

\* The note nearest to p, the lower one of two at the same distance.
Nearest(p) ==
  LET around == {m \in ScaleNotes : Abs(p - m) <= rx.scale.span}
  IN CHOOSE m \in around :
       \A m2 \in around :
         Abs(p - m) < Abs(p - m2) \/ (Abs(p - m) = Abs(p - m2) /\ m <= m2)

\* C39 as stated: enabled and pitch - root outside the window, the call
\* returns root + the nearest note (the lower one at a tie) and leaves
\* previous_boundary <= codeword <= next_boundary; inside the window it
\* returns root + codeword and changes no state; disabled, it returns pitch.
C39_AsStated ==
  rx.calls > 0 =>
    LET c == rx.call
        b == c.before
        p == c.pitch - c.root
    IN IF ~b.enabled THEN c.result = c.pitch /\ rx.state = b
       ELSE IF p >= b.previous_boundary /\ p <= b.next_boundary
       THEN c.result = c.root + b.codeword /\ rx.state = b
       ELSE /\ \A m \in {Nearest(p)} :
                 c.result = c.root + m /\ rx.state.codeword = m
            /\ rx.state.previous_boundary <= rx.state.codeword
            /\ rx.state.codeword <= rx.state.next_boundary


====
